---- MODULE Spec2Model ----
(***************************************************************************)
(* Tensor-like variable trackers of torch/_dynamo/variables/tensor.py:     *)
(* metadata specialization, attribute resolution (var_getattr), method     *)
(* dispatch (call_method and the method_<name> handlers), sequence         *)
(* unpacking and SymNodeVariable.create.                                   *)
(*                                                                         *)
(* Python values are records tagged by the field k, variable trackers are  *)
(* records tagged by the field cls.  The FX graph is a sequence of nodes,  *)
(* a proxy is the index of its node, and a node's meta["example_value"]    *)
(* is the node's field ev.                                                 *)
(***************************************************************************)
EXTENDS Integers, Sequences, FiniteSets, TLC

\* Bounds of the explored inputs.
MaxRank == 2
MaxExtent == 2
MaxRepeat == 1

\* sys.getrecursionlimit(), scaled down: the number of nested call_method
\* dispatches the interpreter allows before it raises RecursionError
RecursionLimit == 4

VARIABLES
    self,    \* the tensor variable the calls are made on
    origin,  \* the tensor self was built from (None when it was not built from one)
    env,     \* what the handlers read besides self: config flags, global modes, the frame
    graph,   \* tx.output: the nodes recorded so far, each with its example value
    guards,  \* the guards installed so far
    side_effects,  \* tx.output.side_effects: the hooks registered so far
    calls,   \* number of protocol calls made on self in this frame
    last,    \* the latest call and its outcome
    prev     \* the call before it

vars == <<self, origin, env, graph, guards, side_effects, calls, last, prev>>

(***************************************************************************)
(* Python values                                                           *)
(***************************************************************************)
None == [k |-> "None"]
PyInt(n) == [k |-> "int", v |-> n]
\* a torch.SymInt whose expression is a constant (symconst) or has free symbols (sym)
SymConst(n) == [k |-> "symconst", v |-> n]
SymFree(n) == [k |-> "sym", v |-> n]
PyBool(b) == [k |-> "bool", v |-> IF b THEN 1 ELSE 0]
PyStr(s) == [k |-> "str", s |-> s]
Tup(items) == [k |-> "tuple", items |-> items]
Dtype(name) == [k |-> "dtype", name |-> name]
PyClass(name) == [k |-> "class", name |-> name]
Device(type, index) == [k |-> "device", type |-> type, index |-> index]

ExtentKinds == {"int", "symconst", "sym"}
Extents == {[k |-> kk, v |-> n] : kk \in ExtentKinds, n \in 0..MaxExtent}

\* torch.fx.experimental.symbolic_shapes.has_free_symbols on a scalar
has_free_symbols(x) == x.k = "sym"

\* has_free_symbols on a tuple / torch.Size: any element has one
has_free_symbols_seq(s) == \E i \in 1..Len(s) : has_free_symbols(s[i])

\* has_free_symbols on a tensor: its sizes and strides
has_free_symbols_tensor(t) == has_free_symbols_seq(t.size) \/ has_free_symbols_seq(t.stride)

\* torch.fx.experimental.symbolic_shapes.is_symbolic: any SymInt, constant or not
is_symbolic(x) == x.k \in {"symconst", "sym"}

\* int(x): a plain python int with the value (the hint) of x
ToInt(x) == PyInt(x.v)

\* the kind of an arithmetic result over operands of the kinds ks
JoinKind(ks) ==
    IF "sym" \in ks THEN "sym" ELSE IF "symconst" \in ks THEN "symconst" ELSE "int"

Max(a, b) == IF a >= b THEN a ELSE b

RECURSIVE ProdFrom(_, _)
ProdFrom(s, i) == IF i > Len(s) THEN 1 ELSE s[i].v * ProdFrom(s, i + 1)

RECURSIVE ProdClampedFrom(_, _)
ProdClampedFrom(s, i) == IF i > Len(s) THEN 1 ELSE Max(s[i].v, 1) * ProdClampedFrom(s, i + 1)

\* utils.product: functools.reduce(operator.mul, it, 1)
product(s) == [k |-> JoinKind({s[i].k : i \in 1..Len(s)}), v |-> ProdFrom(s, 1)]

\* strides of a contiguous tensor of the given sizes
ContiguousStride(size) ==
    [i \in 1..Len(size) |->
        [k |-> JoinKind({size[j].k : j \in (i + 1)..Len(size)}),
         v |-> ProdClampedFrom(size, i + 1)]]

\* a (fake) tensor value
TensorValue(size, dtype, device, layout, requires_grad, class_type) ==
    [k |-> "tensor", size |-> size, stride |-> ContiguousStride(size),
     dtype |-> dtype, device |-> device, layout |-> layout,
     requires_grad |-> requires_grad, is_quantized |-> FALSE, is_sparse |-> FALSE,
     batched |-> FALSE, class_type |-> class_type]

\* Tensor.numel() of a (fake) tensor value
Numel(t) == product(t.size)

(***************************************************************************)
(* Variable trackers                                                       *)
(***************************************************************************)
\* ConstantVariable.create(value)
ConstantVariable(value) == [cls |-> "ConstantVariable", value |-> value, source |-> None]

SizeVariable(items) == [cls |-> "SizeVariable", items |-> items, source |-> None]

TupleVariable(items) == [cls |-> "TupleVariable", items |-> items, source |-> None]

ListVariable(items) == [cls |-> "ListVariable", items |-> items, source |-> None]

\* SymNodeVariable.__init__(proxy, sym_num)
SymNodeVariable(node, sym_num) ==
    [cls |-> "SymNodeVariable", node |-> node, sym_num |-> sym_num, source |-> None]

\* result.source = source
SetSource(v, source) == [v EXCEPT !.source = source]

AttrSource(base, member) == [k |-> "AttrSource", base |-> base, member |-> member]

LocalSource(name) == [k |-> "LocalSource", name |-> name]

TensorClasses ==
    {"TensorVariable", "NumpyNdarrayVariable", "UnspecializedPythonVariable",
     "FakeItemVariable"}

\* isinstance(v, TensorVariable)
IsTensorVariable(v) == v.cls \in TensorClasses

\* torch._prims_common._memory_formats that a contiguous value satisfies
ContiguousFormats(value) == <<PyStr("contiguous_format")>>

\* specialize caching the sizes as the strides
specialize_stride_from_size(value) ==
    LET static == ~has_free_symbols_tensor(value)
        size == IF static
                THEN Tup([i \in 1..Len(value.size) |->
                            IF is_symbolic(value.size[i])
                            THEN ToInt(value.size[i]) ELSE value.size[i]])
                ELSE None
    IN  [dtype |-> value.dtype, device |-> value.device, layout |-> value.layout,
         ndim |-> PyInt(Len(value.size)),
         requires_grad |-> PyBool(value.requires_grad),
         is_quantized |-> PyBool(value.is_quantized),
         is_sparse |-> PyBool(value.is_sparse),
         class_type |-> value.class_type,
         size |-> size,
         stride |-> size,
         is_contiguous |-> IF static THEN Tup(ContiguousFormats(value)) ELSE None]

\* TensorVariable.specialize(value): the keyword properties of the variable
specialize(value) ==
    LET static == ~has_free_symbols_tensor(value)
    IN  [dtype |-> value.dtype,
         device |-> value.device,
         layout |-> value.layout,
         ndim |-> PyInt(Len(value.size)),
         requires_grad |-> PyBool(value.requires_grad),
         is_quantized |-> PyBool(value.is_quantized),
         is_sparse |-> PyBool(value.is_sparse),
         class_type |-> value.class_type,
         size |-> IF static
                  THEN Tup([i \in 1..Len(value.size) |->
                              IF is_symbolic(value.size[i])
                              THEN ToInt(value.size[i]) ELSE value.size[i]])
                  ELSE None,
         stride |-> IF static THEN Tup(value.stride) ELSE None,
         is_contiguous |-> IF static
                           THEN IF value.batched THEN None
                                ELSE Tup(ContiguousFormats(value))
                           ELSE None]

\* TensorVariable.__init__ (and its subclasses): proxy, properties, source
NewTensorVariable(cls, node, props, source) ==
    [cls |-> cls, node |-> node, source |-> source,
     dtype |-> props.dtype, device |-> props.device, layout |-> props.layout,
     ndim |-> props.ndim, size |-> props.size, stride |-> props.stride,
     requires_grad |-> props.requires_grad, is_quantized |-> props.is_quantized,
     is_contiguous |-> props.is_contiguous, is_sparse |-> props.is_sparse,
     class_type |-> props.class_type]

(***************************************************************************)
(* The trace state a call works on: the graph (append-only), the installed *)
(* guards, the number of reads of a node's meta["example_value"], the      *)
(* registered side effects, and the interpreter's call stack: depth is the *)
(* number of call_method dispatches now running, peak the largest depth    *)
(* reached since the trace state was made, trail the names dispatched, in  *)
(* the order of the calls.                                                 *)
(* A call's outcome is a record: sig is "return" (res is the returned      *)
(* variable, or None when a handler declines), or the exception raised     *)
(* ("Unsupported" for exc.unimplemented).                                  *)
(***************************************************************************)
Machine(g, gs) ==
    [graph |-> g, guards |-> gs, reads |-> 0, side_effects |-> side_effects,
     depth |-> 0, peak |-> 0, trail |-> <<>>]

Return(res, m) == [sig |-> "return", res |-> res, m |-> m]

Declined(m) == [sig |-> "return", res |-> None, m |-> m]

Raise(exc, m) == [sig |-> exc, res |-> None, m |-> m]

\* exc.unimplemented(msg)
unimplemented(m) == Raise("Unsupported", m)

\* node.meta.get("example_value")
ExampleValue(m, node) == m.graph[node].ev

ReadExample(m) == [m EXCEPT !.reads = @ + 1]

\* guards.install_guard(guard)
install_guard(m, guard) == [m EXCEPT !.guards = @ \cup {guard}]

NodeRef(node) == [k |-> "node", id |-> node]

\* VariableTracker.as_proxy() as an argument of a graph node
RECURSIVE as_proxy(_)
as_proxy(v) ==
    IF IsTensorVariable(v) \/ v.cls = "SymNodeVariable" THEN NodeRef(v.node)
    ELSE IF v.cls = "ConstantVariable" THEN v.value
    ELSE IF v.cls \in {"SizeVariable", "TupleVariable", "ListVariable"}
         THEN [k |-> IF v.cls = "ListVariable" THEN "list" ELSE "tuple",
               items |-> [i \in 1..Len(v.items) |-> as_proxy(v.items[i])]]
    ELSE [k |-> "object", of |-> v.cls]

\* utils.proxy_args_kwargs(args, kwargs)
proxy_args(args) == [i \in 1..Len(args) |-> as_proxy(args[i])]

proxy_kwargs(kwargs) ==
    [i \in 1..Len(kwargs) |-> [key |-> kwargs[i].key, val |-> as_proxy(kwargs[i].val)]]

\* Python sequence indexing r[dim]: the 1-based position, 0 when out of range
PyIndex(len, dim) ==
    IF dim >= 0 /\ dim < len THEN dim + 1
    ELSE IF dim < 0 /\ dim + len >= 0 THEN dim + len + 1
    ELSE 0

\* The example value the fake-tensor oracle gives a new node
\* (utils.get_fake_value): the operation applied to the example values of
\* its inputs.
InferExample(m, op, target, pargs) ==
    LET base == IF Len(pargs) > 0 /\ pargs[1].k = "node"
                THEN ExampleValue(m, pargs[1].id) ELSE None
        dimGiven == Len(pargs) > 1 /\ pargs[2].k = "int"
        at(s) == PyIndex(Len(s), pargs[2].v)
    IN  IF op = "call_method" /\ base.k = "tensor"
        THEN IF target \in {"size", "stride"}
             THEN LET s == IF target = "size" THEN base.size ELSE base.stride
                  IN  IF ~dimGiven THEN Tup(s)
                      ELSE IF at(s) > 0 THEN s[at(s)] ELSE [k |-> "opaque"]
             ELSE IF target \in {"numel", "nelement"} THEN Numel(base)
             ELSE IF target \in {"dim", "ndimension"} THEN PyInt(Len(base.size))
             ELSE IF target \in {"detach", "add_", "addcdiv_", "cpu", "view_as", "type",
                                 "as_subclass", "new_empty"}
             THEN base
             ELSE [k |-> "opaque"]
        ELSE IF op = "call_function" /\ base.k = "tensor"
                /\ target \in {"torch.mul", "torch.div", "_register_hook_trampoline"}
        THEN base
        ELSE IF op = "call_function" /\ target = "torch.eq" /\ base.k = "tensor"
        THEN [base EXCEPT !.dtype = Dtype("bool"), !.requires_grad = FALSE]
        ELSE IF op = "call_function" /\ target = "torch.any" /\ base.k = "tensor"
        THEN [base EXCEPT !.size = <<>>, !.stride = <<>>, !.dtype = Dtype("bool")]
        ELSE IF op = "call_function" /\ target = "getitem" /\ base.k = "tensor"
                /\ Len(base.size) > 0
        THEN [base EXCEPT !.size = Tail(base.size),
                          !.stride = ContiguousStride(Tail(base.size))]
        ELSE [k |-> "opaque"]

\* tx.output.create_proxy(op, target, args, kwargs): appends one node
create_proxy(m, op, target, pargs, pkwargs) ==
    [m EXCEPT !.graph = Append(@, [op |-> op, target |-> target, args |-> pargs,
                                    kwargs |-> pkwargs,
                                    ev |-> InferExample(m, op, target, pargs)])]

\* the node create_proxy has just appended
NewNode(m) == Len(m.graph)

\* the properties of a variable whose example value is not a tensor the
\* model describes
UnknownProps ==
    [dtype |-> None, device |-> None, layout |-> None, ndim |-> None,
     requires_grad |-> None, is_quantized |-> None, is_sparse |-> None,
     class_type |-> None, size |-> None, stride |-> None, is_contiguous |-> None]

\* builder.wrap_fx_proxy_cls(target_cls, tx, proxy, source): the variable
\* kind follows the type of the node's example value
wrap_fx_proxy_cls(target_cls, m, node, source) ==
    LET ev == ExampleValue(m, node)
        scalar(x) == IF x.k = "int" THEN ConstantVariable(x) ELSE SymNodeVariable(node, x)
    IN  IF ev.k = "tensor"
        THEN NewTensorVariable(target_cls, node, specialize(ev), source)
        ELSE IF ev.k = "tuple"
        THEN SetSource(SizeVariable([i \in 1..Len(ev.items) |-> scalar(ev.items[i])]), source)
        ELSE IF ev.k \in ExtentKinds
        THEN SetSource(scalar(ev), source)
        ELSE NewTensorVariable(target_cls, node, UnknownProps, source)

\* builder.wrap_fx_proxy(tx, proxy, source=None)
wrap_fx_proxy(m, node, source) == wrap_fx_proxy_cls("TensorVariable", m, node, source)

\* wrap_fx_proxy_cls(target_cls, tx, tx.output.create_proxy(...), source): the
\* variable of the node just appended to m
WrapNew(target_cls, m, source) ==
    Return(wrap_fx_proxy_cls(target_cls, m, NewNode(m), source), m)

(***************************************************************************)
(* Binding of a call's arguments to a handler's signature.  args is a      *)
(* sequence of variables, kwargs a sequence of [key, val].  A call that    *)
(* does not fit the signature raises TypeError.                            *)
(***************************************************************************)
KwKeys(kwargs) == {kwargs[i].key : i \in 1..Len(kwargs)}

\* pos: the positional-or-keyword parameters in order, of which the first
\* nreq have no default; kwonly: the keyword-only parameters
BindOK(pos, kwonly, nreq, args, kwargs) ==
    /\ Len(args) <= Len(pos)
    /\ \A key \in KwKeys(kwargs) :
          key \in kwonly \/ \E i \in (Len(args) + 1)..Len(pos) : pos[i] = key
    /\ \A i \in (Len(args) + 1)..nreq : pos[i] \in KwKeys(kwargs)

\* the argument bound to parameter p, or dflt
ArgOf(pos, args, kwargs, p, dflt) ==
    IF \E i \in 1..Len(args) : i <= Len(pos) /\ pos[i] = p
    THEN args[CHOOSE i \in 1..Len(args) : i <= Len(pos) /\ pos[i] = p]
    ELSE IF p \in KwKeys(kwargs)
    THEN kwargs[CHOOSE i \in 1..Len(kwargs) : kwargs[i].key = p].val
    ELSE dflt

\* utils.guard_if_dyn(arg): the python value of a constant or symbolic argument
guard_if_dyn(arg) ==
    IF arg = None THEN None
    ELSE IF arg.cls = "SymNodeVariable" THEN ToInt(arg.sym_num)
    ELSE IF arg.cls = "ConstantVariable" THEN arg.value
    ELSE arg

(***************************************************************************)
(* The method_<name> handlers                                              *)
(***************************************************************************)
\* make_const_size_variable / ConstantVariable.create, by name
RetVariable(name, items) ==
    IF name = "size"
    THEN SizeVariable([i \in 1..Len(items) |-> ConstantVariable(items[i])])
    ELSE ConstantVariable(Tup(items))

\* _method_size_stride without the has_free_symbols gate on the example value
_method_size_stride_ungated(slf, name, dimArg, m) ==
    LET dim == guard_if_dyn(dimArg)
        r == IF name = "size" THEN slf.size ELSE slf.stride
        fake == ExampleValue(m, slf.node)
        fr == IF name = "size" THEN fake.size ELSE fake.stride
    IN  IF r # None
        THEN IF dim = None THEN Return(RetVariable(name, r.items), m)
             ELSE IF PyIndex(Len(r.items), dim.v) = 0 THEN Raise("IndexError", m)
             ELSE Return(ConstantVariable(r.items[PyIndex(Len(r.items), dim.v)]), m)
        ELSE IF fake = None THEN Declined(ReadExample(m))
        ELSE IF dim = None
        THEN Return(RetVariable(name, [i \in 1..Len(fr) |-> ToInt(fr[i])]), ReadExample(m))
        ELSE IF PyIndex(Len(fr), dim.v) = 0 THEN Raise("IndexError", ReadExample(m))
        ELSE Return(ConstantVariable(ToInt(fr[PyIndex(Len(fr), dim.v)])), ReadExample(m))

\* TensorVariable._method_size_stride(name, dim=None)
_method_size_stride(slf, name, dimArg, m) ==
    LET dim == guard_if_dyn(dimArg)
        r == IF name = "size" THEN slf.size ELSE slf.stride
    IN  IF r # None
        THEN IF dim = None THEN Return(RetVariable(name, r.items), m)
             ELSE IF PyIndex(Len(r.items), dim.v) = 0 THEN Raise("IndexError", m)
             ELSE Return(ConstantVariable(r.items[PyIndex(Len(r.items), dim.v)]), m)
        ELSE LET fake == ExampleValue(m, slf.node)
                 m1 == ReadExample(m)
                 fr == IF name = "size" THEN fake.size ELSE fake.stride
             IN  IF fake # None
                 THEN IF dim = None
                      THEN IF ~has_free_symbols_seq(fr)
                           THEN Return(RetVariable(name, [i \in 1..Len(fr) |-> ToInt(fr[i])]), m1)
                           ELSE Declined(m1)
                      ELSE IF PyIndex(Len(fr), dim.v) = 0 THEN Raise("IndexError", m1)
                      ELSE IF ~has_free_symbols(fr[PyIndex(Len(fr), dim.v)])
                           THEN Return(ConstantVariable(ToInt(fr[PyIndex(Len(fr), dim.v)])), m1)
                           ELSE Declined(m1)
                 ELSE Declined(m1)

\* TensorVariable.method_size(*args, **kwargs) / method_stride(*args, **kwargs)
method_size_stride(slf, name, args, kwargs, m) ==
    IF ~BindOK(<<"dim">>, {}, 0, args, kwargs) THEN Raise("TypeError", m)
    ELSE _method_size_stride(slf, name, ArgOf(<<"dim">>, args, kwargs, "dim", None), m)

\* TensorVariable.method_numel() (also method_nelement)
method_numel(slf, args, kwargs, m) ==
    IF ~BindOK(<<>>, {}, 0, args, kwargs) THEN Raise("TypeError", m)
    ELSE IF slf.size # None THEN Return(ConstantVariable(product(slf.size.items)), m)
    ELSE LET fake == ExampleValue(m, slf.node)
             m1 == ReadExample(m)
         IN  IF fake # None /\ ~has_free_symbols(Numel(fake))
             THEN Return(ConstantVariable(ToInt(Numel(fake))), m1)
             ELSE Declined(m1)

\* TensorVariable.method_dim() (also method_ndimension)
method_dim(slf, args, kwargs, m) ==
    IF ~BindOK(<<>>, {}, 0, args, kwargs) THEN Raise("TypeError", m)
    ELSE IF slf.ndim # None THEN Return(ConstantVariable(slf.ndim), m)
    ELSE Declined(m)

\* utils.tensortype_to_dtype: the legacy tensor type of each dtype, in order
tensortype_to_dtype ==
    <<[name |-> "FloatTensor", dtypes |-> {"float32"}],
      [name |-> "CharTensor", dtypes |-> {"int8"}],
      [name |-> "LongTensor", dtypes |-> {"int64"}],
      [name |-> "BoolTensor", dtypes |-> {"bool"}]>>

TensorSubclassVariable(value, source) ==
    [cls |-> "TensorSubclassVariable", value |-> value, source |-> source]

\* every call_method, by the class of the receiver (defined below)
RECURSIVE dispatch_call_method(_, _, _, _, _)

\* SymNodeVariable.create (defined below)
RECURSIVE SymNodeVariable_create(_, _, _)

\* method_type naming every device like the cpu
method_type_cpu_names(slf, args, kwargs, m) ==
    LET pos == <<"dtype", "non_blocking">>
        dtype == ArgOf(pos, args, kwargs, "dtype", None)
        hits == {i \in 1..Len(tensortype_to_dtype) :
                    slf.dtype.name \in tensortype_to_dtype[i].dtypes}
        tensortype == tensortype_to_dtype[CHOOSE i \in hits : \A j \in hits : i <= j].name
    IN  IF dtype = None /\ slf.dtype # None /\ slf.device # None /\ hits # {}
        THEN Return(ConstantVariable(PyStr("torch." \o tensortype)), m)
        ELSE Declined(m)

\* TensorVariable.method_type(dtype=None, non_blocking=False, **kwargs)
method_type(slf, args, kwargs, m) ==
    LET pos == <<"dtype", "non_blocking">>
        bound == /\ Len(args) <= Len(pos)
                 /\ \A i \in 1..Len(args) : pos[i] \notin KwKeys(kwargs)
        dtype == ArgOf(pos, args, kwargs, "dtype", None)
        non_blocking == ArgOf(pos, args, kwargs, "non_blocking", None)
        hits == {i \in 1..Len(tensortype_to_dtype) :
                    slf.dtype.name \in tensortype_to_dtype[i].dtypes}
        tensortype == tensortype_to_dtype[CHOOSE i \in hits : \A j \in hits : i <= j].name
        rest == SelectSeq(kwargs, LAMBDA kw : kw.key \notin {"dtype", "non_blocking"})
        nb == IF non_blocking # None
              THEN <<[key |-> "non_blocking", val |-> non_blocking]>> ELSE <<>>
    IN  IF ~bound THEN Raise("TypeError", m)
        ELSE IF dtype = None /\ slf.dtype # None /\ slf.device # None
        THEN IF hits = {} THEN Raise("StopIteration", m)
             ELSE IF slf.device.type = "cuda"
             THEN Return(ConstantVariable(PyStr("torch.cuda." \o tensortype)), m)
             ELSE Return(ConstantVariable(PyStr("torch." \o tensortype)), m)
        ELSE IF dtype # None /\ dtype.cls # "ConstantVariable"
        THEN Raise("NotImplementedError", m)
        ELSE IF dtype # None /\ dtype.value.k = "tensortype"
        THEN LET tensor_type_const == ConstantVariable(PyStr("torch." \o dtype.value.name))
             IN  WrapNew("TensorVariable",
                         create_proxy(m, "call_method", "type",
                                      proxy_args(<<slf, tensor_type_const>>),
                                      proxy_kwargs(nb \o rest)),
                         None)
        ELSE Declined(m)

\* method_as_subclass without the test of cls.source
method_as_subclass_any_source(slf, args, kwargs, m) ==
    LET c == ArgOf(<<"cls">>, args, kwargs, "cls", None)
    IN  IF ~BindOK(<<"cls">>, {}, 1, args, kwargs) THEN Raise("TypeError", m)
        ELSE IF c.cls = "TensorSubclassVariable"
        THEN Return([cls |-> "TensorWithTFOverrideVariable", node |-> slf.node,
                     class_type |-> c.value, source |-> slf.source,
                     torch_fn |-> AttrSource(AttrSource(c.source, "__torch_function__"),
                                             "__func__")], m)
        ELSE Declined(m)

\* TensorVariable.method_as_subclass(cls)
method_as_subclass(slf, args, kwargs, m) ==
    LET c == ArgOf(<<"cls">>, args, kwargs, "cls", None)
    IN  IF ~BindOK(<<"cls">>, {}, 1, args, kwargs) THEN Raise("TypeError", m)
        ELSE IF c.cls = "TensorSubclassVariable" /\ c.source # None
        THEN Return([cls |-> "TensorWithTFOverrideVariable", node |-> slf.node,
                     class_type |-> c.value, source |-> slf.source,
                     torch_fn |-> AttrSource(AttrSource(c.source, "__torch_function__"),
                                             "__func__")], m)
        ELSE Declined(m)

\* has_bool_key(v) of method___setitem__
RECURSIVE has_bool_key(_)
has_bool_key(v) ==
    IF IsTensorVariable(v)
    THEN v.dtype # None /\ v.dtype.name \in {"bool", "int8"}
    ELSE IF v.cls \in {"TupleVariable", "SizeVariable"}
    THEN \E i \in 1..Len(v.items) : has_bool_key(v.items[i])
    ELSE FALSE

\* method___setitem__ without the test of torch.is_grad_enabled()
method___setitem___any_grad_mode(slf, args, kwargs, m) ==
    LET pos == <<"key", "value">>
        key == ArgOf(pos, args, kwargs, "key", None)
        val == ArgOf(pos, args, kwargs, "value", None)
    IN  IF ~BindOK(pos, {}, 2, args, kwargs) THEN Raise("TypeError", m)
        ELSE IF has_bool_key(key) /\ IsTensorVariable(val) /\ val.requires_grad = PyBool(TRUE)
        THEN unimplemented(m)
        ELSE Return(ConstantVariable(None),
                    create_proxy(m, "call_function", "setitem",
                                 proxy_args(<<slf, key, val>>), <<>>))

\* TensorVariable.method___setitem__(key, value)
method___setitem__(slf, args, kwargs, m) ==
    LET pos == <<"key", "value">>
        key == ArgOf(pos, args, kwargs, "key", None)
        value == ArgOf(pos, args, kwargs, "value", None)
    IN  IF ~BindOK(pos, {}, 2, args, kwargs) THEN Raise("TypeError", m)
        ELSE IF /\ has_bool_key(key)
                /\ IsTensorVariable(value)
                /\ value.requires_grad = PyBool(TRUE)
                /\ env.grad_enabled
        THEN unimplemented(m)
        ELSE Return(ConstantVariable(None),
                    create_proxy(m, "call_function", "setitem",
                                 proxy_args(<<slf, key, value>>), <<>>))

\* TensorVariable.method_backward / method_data_ptr(*args, **kwargs)
method_backward(slf, args, kwargs, m) == unimplemented(m)

\* TensorVariable.method_resize_ / method_resize_as_(*args, **kwargs)
method_resize_(slf, args, kwargs, m) == unimplemented(m)

\* method_item without the test of config.capture_scalar_outputs
method_item_ungated(slf, args, kwargs, m) == Declined(m)

\* TensorVariable.method_item(*args, **kwargs)
method_item(slf, args, kwargs, m) ==
    IF ~env.capture_scalar_outputs THEN unimplemented(m) ELSE Declined(m)

\* TensorVariable.method___len__()
method___len__(slf, args, kwargs, m) ==
    IF ~BindOK(<<>>, {}, 0, args, kwargs) THEN Raise("TypeError", m)
    ELSE dispatch_call_method(slf, "size", <<ConstantVariable(PyInt(0))>>, <<>>, m)

\* variables.TorchInGraphFunctionVariable(fn).call_function(tx, args, {}):
\* one call_function node over the arguments, wrapped
torch_call_function(fn, args, m) ==
    WrapNew("TensorVariable", create_proxy(m, "call_function", fn, proxy_args(args), <<>>),
            None)

\* "return self.call_method(tx, 'add_', [result], {})", result being the
\* outcome of the multiplication
add_result(slf, result) ==
    IF result.sig # "return" THEN result
    ELSE dispatch_call_method(slf, "add_", <<result.res>>, <<>>, result.m)

\* method_add_ dropping the scaling argument
method_add__unscaled(slf, args, kwargs, m) ==
    IF ~BindOK(<<"other">>, {"alpha"}, 1, args, kwargs) THEN Raise("TypeError", m)
    ELSE IF "alpha" \in KwKeys(kwargs)
    THEN dispatch_call_method(slf, "add_",
                              <<ArgOf(<<"other">>, args, kwargs, "other", None)>>, <<>>, m)
    ELSE Declined(m)

\* TensorVariable.method_add_(other, *, alpha=None)
method_add_(slf, args, kwargs, m) ==
    IF ~BindOK(<<"other">>, {"alpha"}, 1, args, kwargs) THEN Raise("TypeError", m)
    ELSE IF "alpha" \in KwKeys(kwargs)
    THEN add_result(slf,
             torch_call_function("torch.mul",
                                 <<ArgOf(<<"other">>, args, kwargs, "other", None),
                                   ArgOf(<<"other">>, args, kwargs, "alpha", None)>>, m))
    ELSE Declined(m)

\* the multiplication by value of method_addcdiv_, result being the outcome
\* of the division
addcdiv_scaled(slf, value, result) ==
    IF result.sig # "return" THEN result
    ELSE add_result(slf, torch_call_function("torch.mul", <<result.res, value>>, result.m))

\* TensorVariable.method_addcdiv_(tensor1, tensor2, *, value=None)
method_addcdiv_(slf, args, kwargs, m) ==
    LET pos == <<"tensor1", "tensor2">>
    IN  IF ~BindOK(pos, {"value"}, 2, args, kwargs) THEN Raise("TypeError", m)
        ELSE IF "value" \in KwKeys(kwargs)
        THEN addcdiv_scaled(slf, ArgOf(pos, args, kwargs, "value", None),
                 torch_call_function("torch.div",
                                     <<ArgOf(pos, args, kwargs, "tensor1", None),
                                       ArgOf(pos, args, kwargs, "tensor2", None)>>, m))
        ELSE Declined(m)

\* "return result.call_method(tx, 'item', [], {})" of method___contains__
contains_item(result) ==
    IF result.sig # "return" THEN result
    ELSE dispatch_call_method(result.res, "item", <<>>, <<>>, result.m)

\* the torch.any of method___contains__, result being the outcome of torch.eq
contains_any(result) ==
    IF result.sig # "return" THEN result
    ELSE contains_item(torch_call_function("torch.any", <<result.res>>, result.m))

\* TensorVariable.method___contains__(arg)
method___contains__(slf, args, kwargs, m) ==
    IF ~BindOK(<<"arg">>, {}, 1, args, kwargs) THEN Raise("TypeError", m)
    ELSE contains_any(torch_call_function("torch.eq",
                          <<slf, ArgOf(<<"arg">>, args, kwargs, "arg", None)>>, m))

RemovableHandleVariable(id) ==
    [cls |-> "RemovableHandleVariable", mutable_local |-> id, source |-> None]

\* tx.output.side_effects.register_hook(tensor, hook, handle, name)
register_hook(m, tensor, hook, handle, name) ==
    [m EXCEPT !.side_effects =
        Append(@, [tensor |-> tensor, hook |-> hook, handle |-> handle, name |-> name])]

\* _method_register_hook without the test of compiled autograd
_method_register_hook_any_mode(slf, name, args, kwargs, m) ==
    LET hook == ArgOf(<<"hook">>, args, kwargs, "hook", None)
        handle == RemovableHandleVariable(Len(m.side_effects) + 1)
    IN  IF ~BindOK(<<"hook">>, {}, 1, args, kwargs) THEN Raise("TypeError", m)
        ELSE IF slf.source = None
        THEN WrapNew("TensorVariable",
                     create_proxy(m, "call_function", "_register_hook_trampoline",
                                  <<as_proxy(slf)>>, <<>>), None)
        ELSE Return(handle, register_hook(m, slf, hook, handle, name))

\* TensorVariable._method_register_hook(name, hook), called by
\* method_register_hook and method_register_post_accumulate_grad_hook
_method_register_hook(slf, name, args, kwargs, m) ==
    LET hook == ArgOf(<<"hook">>, args, kwargs, "hook", None)
        handle_variable == RemovableHandleVariable(Len(m.side_effects) + 1)
    IN  IF ~BindOK(<<"hook">>, {}, 1, args, kwargs) THEN Raise("TypeError", m)
        ELSE IF slf.source = None
        THEN IF ~env.compiled_autograd_enabled THEN unimplemented(m)
             ELSE IF hook.cls # "UserFunctionVariable" THEN Raise("NotImplementedError", m)
             ELSE WrapNew("TensorVariable",
                          create_proxy(m, "call_function", "_register_hook_trampoline",
                                       <<as_proxy(slf)>>, <<>>), None)
        ELSE Return(handle_variable, register_hook(m, slf, hook, handle_variable, name))

\* a method call or an indexing made on a torch.fx.Proxy itself: one node,
\* without an example value
proxy_call(m, op, target, pargs) ==
    [m EXCEPT !.graph = Append(@, [op |-> op, target |-> target, args |-> pargs,
                                    kwargs |-> <<>>, ev |-> None])]

\* tx.output.shape_env.create_unbacked_symint(): a fresh symbol, named here
\* after the node it is made for
create_unbacked_symint(node) == [k |-> "sym", v |-> node]

\* SymNodeVariable.create(tx, <the node just appended>, sym_num=<fresh symbol>)
tolist_created(m) ==
    SymNodeVariable_create(NewNode(m), create_unbacked_symint(NewNode(m)), m)

\* wrap(i, sub_proxy) of method_tolist
tolist_wrap(sub_proxy, m) ==
    tolist_created(proxy_call(m, "call_method", "item", <<NodeRef(sub_proxy)>>))

RECURSIVE tolist(_, _, _), tolist_items(_, _, _, _, _)

\* the element of tensor at the node sub_proxy[i] just appended to m
tolist_element(tensor, m) ==
    IF Len(tensor.size) = 1 THEN tolist_wrap(NewNode(m), m)
    ELSE tolist([tensor EXCEPT !.size = Tail(tensor.size),
                               !.stride = ContiguousStride(Tail(tensor.size))],
                NewNode(m), m)

\* element being the outcome for index i, go on with index i + 1
tolist_next(tensor, sub_proxy, i, done, element) ==
    IF element.sig # "return" THEN element
    ELSE tolist_items(tensor, sub_proxy, i + 1, Append(done, element.res), element.m)

\* the list comprehensions over enumerate(tensor) of tolist
tolist_items(tensor, sub_proxy, i, done, m) ==
    IF i >= tensor.size[1].v THEN Return(ListVariable(done), m)
    ELSE tolist_next(tensor, sub_proxy, i, done,
             tolist_element(tensor,
                 proxy_call(m, "call_function", "getitem", <<NodeRef(sub_proxy), PyInt(i)>>)))

\* tolist(tensor, sub_proxy) of method_tolist
tolist(tensor, sub_proxy, m) ==
    IF tensor.dtype.name \notin {"int8", "int16", "int32", "int64"} THEN unimplemented(m)
    ELSE IF Len(tensor.size) = 0 THEN tolist_wrap(sub_proxy, m)
    ELSE tolist_items(tensor, sub_proxy, 0, <<>>, m)

\* TensorVariable.method_tolist()
method_tolist(slf, args, kwargs, m) ==
    IF ~BindOK(<<>>, {}, 0, args, kwargs) THEN Raise("TypeError", m)
    ELSE IF ExampleValue(m, slf.node) = None THEN Raise("KeyError", m)
    ELSE tolist(ExampleValue(m, slf.node), slf.node, m)

\* method_new passing every call on to new_empty
method_new_any_args(slf, args, kwargs, m) ==
    dispatch_call_method(slf, "new", args, kwargs, m)

\* TensorVariable.method_new(*args, **kwargs)
method_new(slf, args, kwargs, m) ==
    IF Len(args) = 1 /\ args[1].cls = "SizeVariable"
    THEN dispatch_call_method(slf, "new_empty", args, kwargs, m)
    ELSE Declined(m)

\* "proxy = t.call_method(tx, 'cpu', [], {}).as_proxy()" of method_numpy, t
\* being the outcome of self.call_method(tx, "detach", [], {})
numpy_forced(t) ==
    IF t.sig # "return" THEN t
    ELSE WrapNew("NumpyNdarrayVariable",
                 create_proxy(t.m, "call_method", "cpu", <<as_proxy(t.res)>>, <<>>), None)

\* method_numpy without the test of config.trace_numpy
method_numpy_unconfigured(slf, args, kwargs, m) ==
    LET force == ArgOf(<<>>, args, kwargs, "force", None)
    IN  IF ~BindOK(<<>>, {"force"}, 0, args, kwargs) THEN Raise("TypeError", m)
        ELSE IF ~env.np_available THEN unimplemented(m)
        ELSE IF slf.layout # PyStr("strided") THEN Raise("TypeError", m)
        ELSE IF force # None /\ force.value = PyBool(TRUE)
        THEN numpy_forced(dispatch_call_method(slf, "detach", <<>>, <<>>, m))
        ELSE WrapNew("NumpyNdarrayVariable",
                     create_proxy(m, "call_method", "view_as", proxy_args(<<slf, slf>>), <<>>),
                     None)

\* TensorVariable.method_numpy(*, force=False)
method_numpy(slf, args, kwargs, m) ==
    LET force == ArgOf(<<>>, args, kwargs, "force", None)
    IN  IF ~BindOK(<<>>, {"force"}, 0, args, kwargs) THEN Raise("TypeError", m)
        ELSE IF ~env.trace_numpy THEN unimplemented(m)
        ELSE IF ~env.np_available THEN unimplemented(m)
        ELSE IF slf.layout # PyStr("strided") THEN Raise("TypeError", m)
        ELSE IF force # None /\ force.value = PyBool(TRUE)
        THEN numpy_forced(dispatch_call_method(slf, "detach", <<>>, <<>>, m))
        ELSE WrapNew("NumpyNdarrayVariable",
                     create_proxy(m, "call_method", "view_as", proxy_args(<<slf, slf>>), <<>>),
                     None)

\* hasattr(self, "method_" + name), for the handlers modelled here
HandlerNames ==
    {"size", "stride", "numel", "nelement", "dim", "ndimension", "type", "as_subclass",
     "__setitem__", "backward", "data_ptr", "resize_", "resize_as_", "item", "__len__",
     "numpy", "tolist", "add_", "addcdiv_", "__contains__", "register_hook",
     "register_post_accumulate_grad_hook", "new"}

\* handler_method(*args, **kwargs)
Handler(slf, name, args, kwargs, m) ==
    CASE name \in {"size", "stride"} -> method_size_stride(slf, name, args, kwargs, m)
      [] name \in {"numel", "nelement"} -> method_numel(slf, args, kwargs, m)
      [] name \in {"dim", "ndimension"} -> method_dim(slf, args, kwargs, m)
      [] name = "type" -> method_type(slf, args, kwargs, m)
      [] name = "as_subclass" -> method_as_subclass(slf, args, kwargs, m)
      [] name = "__setitem__" -> method___setitem__(slf, args, kwargs, m)
      [] name \in {"backward", "data_ptr"} -> method_backward(slf, args, kwargs, m)
      [] name \in {"resize_", "resize_as_"} -> method_resize_(slf, args, kwargs, m)
      [] name = "item" -> method_item(slf, args, kwargs, m)
      [] name = "__len__" -> method___len__(slf, args, kwargs, m)
      [] name = "numpy" -> method_numpy(slf, args, kwargs, m)
      [] name = "tolist" -> method_tolist(slf, args, kwargs, m)
      [] name = "add_" -> method_add_(slf, args, kwargs, m)
      [] name = "addcdiv_" -> method_addcdiv_(slf, args, kwargs, m)
      [] name = "__contains__" -> method___contains__(slf, args, kwargs, m)
      [] name \in {"register_hook", "register_post_accumulate_grad_hook"} ->
            _method_register_hook(slf, name, args, kwargs, m)
      [] name = "new" -> method_new(slf, args, kwargs, m)

\* the tail of call_method wrapping the node as the class of self
DefaultDispatch_type_of_self(slf, name, args, kwargs, m) ==
    WrapNew(slf.cls,
            create_proxy(m, "call_method", name, proxy_args(<<slf>> \o args),
                         proxy_kwargs(kwargs)),
            None)

\* the tail of TensorVariable.call_method: record the call and wrap the node
DefaultDispatch(slf, name, args, kwargs, m) ==
    WrapNew("TensorVariable",
            create_proxy(m, "call_method", name, proxy_args(<<slf>> \o args),
                         proxy_kwargs(kwargs)),
            None)

\* the try block of call_method taking a TypeError for "no result"
handler_result_fallthrough(slf, name, args, kwargs, r) ==
    IF r.sig = "TypeError" THEN DefaultDispatch(slf, name, args, kwargs, r.m)
    ELSE IF r.sig # "return" THEN r
    ELSE IF r.res # None THEN r
    ELSE DefaultDispatch(slf, name, args, kwargs, r.m)

\* the try block of call_method, r being the outcome of the handler:
\* "except TypeError: unimplemented", "if result: return result", and
\* otherwise the tail
handler_result(slf, name, args, kwargs, r) ==
    IF r.sig = "TypeError" THEN unimplemented(r.m)
    ELSE IF r.sig # "return" THEN r
    ELSE IF r.res # None THEN r
    ELSE DefaultDispatch(slf, name, args, kwargs, r.m)

\* call_method without the strict-mode check
call_method_unchecked(slf, name, args, kwargs, m) ==
    IF name \in HandlerNames
    THEN handler_result(slf, name, args, kwargs, Handler(slf, name, args, kwargs, m))
    ELSE DefaultDispatch(slf, name, args, kwargs, m)

\* TensorVariable.call_method(tx, name, args, kwargs)
call_method(slf, name, args, kwargs, m) ==
    IF env.strict_checks_enabled /\ name \in env.banned_ops THEN unimplemented(m)
    ELSE IF name \in HandlerNames
    THEN handler_result(slf, name, args, kwargs, Handler(slf, name, args, kwargs, m))
    ELSE DefaultDispatch(slf, name, args, kwargs, m)

\* kwargs_rename.get(k, k) of patch_args
kwargs_rename(key) ==
    IF key = "a_min" THEN "min" ELSE IF key = "a_max" THEN "max" ELSE key

\* the dict {key(kw): val(kw)} built over kwargs in order: a key stays where
\* it first came and takes the value that came last
DictOf(kwargs) ==
    LET first == SelectSeq([i \in 1..Len(kwargs) |-> i],
                           LAMBDA i : \A j \in 1..(i - 1) : kwargs[j].key # kwargs[i].key)
        latest(key) == CHOOSE i \in 1..Len(kwargs) :
                          /\ kwargs[i].key = key
                          /\ \A j \in (i + 1)..Len(kwargs) : kwargs[j].key # key
    IN  [n \in 1..Len(first) |->
            [key |-> kwargs[first[n]].key, val |-> kwargs[latest(kwargs[first[n]].key)].val]]

\* patch_args renaming the keyword arguments of every method
patch_args_any_name(name, kwargs) ==
    DictOf([i \in 1..Len(kwargs) |->
               [key |-> kwargs_rename(kwargs[i].key), val |-> kwargs[i].val]])

\* NumpyNdarrayVariable.patch_args(name, args, kwargs): the renamed kwargs
patch_args(name, kwargs) ==
    IF name = "clip"
    THEN DictOf([i \in 1..Len(kwargs) |->
                    [key |-> kwargs_rename(kwargs[i].key), val |-> kwargs[i].val]])
    ELSE kwargs

\* NumpyNdarrayVariable.call_method(tx, name, args, kwargs)
numpy_call_method(slf, name, args, kwargs, m) ==
    IF name \in {"__len__", "size", "tolist"}
    THEN call_method(slf, name, args, patch_args(name, kwargs), m)
    ELSE IF name = "tobytes" THEN unimplemented(m)
    ELSE WrapNew("NumpyNdarrayVariable",
                 create_proxy(m, "call_function", "numpy_method_wrapper." \o name,
                              proxy_args(<<slf>> \o args),
                              proxy_kwargs(patch_args(name, kwargs))),
                 None)

\* SymNodeVariable.call_method(tx, name, args, kwargs)
symnode_call_method(slf, name, args, kwargs, m) ==
    DefaultDispatch(slf, name, args, kwargs, m)

\* the call_method of the receiver's class
bound_call_method(slf, name, args, kwargs, m) ==
    IF slf.cls = "NumpyNdarrayVariable" THEN numpy_call_method(slf, name, args, kwargs, m)
    ELSE IF slf.cls = "SymNodeVariable" THEN symnode_call_method(slf, name, args, kwargs, m)
    ELSE call_method(slf, name, args, kwargs, m)

\* x.call_method(tx, name, args, kwargs): a frame is pushed on the
\* interpreter's stack, the call_method of the class runs, and the frame is
\* popped, with a result or with an exception; a call that would nest deeper
\* than the recursion limit raises RecursionError instead
dispatch_call_method(slf, name, args, kwargs, m) ==
    IF m.depth >= RecursionLimit THEN Raise("RecursionError", m)
    ELSE [bound_call_method(slf, name, args, kwargs,
              [m EXCEPT !.depth = @ + 1,
                        !.peak = IF @ > m.depth THEN @ ELSE m.depth + 1,
                        !.trail = Append(@, name)])
          EXCEPT !.m.depth = @ - 1]

(***************************************************************************)
(* Attribute resolution                                                    *)
(***************************************************************************)
\* names n for which torch.ops.aten.n is tagged torch.Tag.inplace_view
InplaceViewOps == {"resize_", "unsqueeze_"}

\* type(inspect.getattr_static(torch.Tensor, name)): a getset descriptor,
\* another kind of attribute (a method), or AttributeError
GetSetDescriptors ==
    {"ndim", "dtype", "device", "layout", "is_cuda", "shape", "requires_grad",
     "is_quantized", "is_sparse", "data", "real", "grad"}

TensorMethods ==
    {"size", "stride", "detach", "backward", "resize_", "unsqueeze_", "__class__"}

\* the attributes the bound real value has besides those of torch.Tensor,
\* none of them callable
InstanceAttrs == {"my_attr"}

UserDefinedClassVariable(value) ==
    [cls |-> "UserDefinedClassVariable", value |-> value, source |-> None]

DelayGraphBreakVariable(source) == [cls |-> "DelayGraphBreakVariable", source |-> source]

Guard(kind, source) == [kind |-> kind, source |-> source]

\* try_generic_attr_handling() of var_getattr
try_generic_attr_handling(slf, name, m) ==
    IF name \notin GetSetDescriptors THEN Declined(m)
    ELSE WrapNew("TensorVariable",
                 create_proxy(m, "call_function", "getattr",
                              <<NodeRef(slf.node), PyStr(name)>>, <<>>),
                 IF slf.source # None THEN AttrSource(slf.source, name) ELSE None)

\* dynamic_getattr reporting a missing source through exc.unimplemented
dynamic_getattr_unimplemented(slf, name, m) ==
    IF slf.source = None \/ env.bound \in {"has_getattribute", "custom_getattr"}
    THEN unimplemented(m)
    ELSE IF env.bound \in {"unevaluable", "None"} THEN Raise("NotImplementedError", m)
    ELSE IF name \notin (GetSetDescriptors \cup TensorMethods \cup InstanceAttrs)
    THEN Raise("AttributeError", m)
    ELSE IF name \in TensorMethods THEN Raise("NotImplementedError", m)
    ELSE Return([cls |-> "BuiltVariable", attr |-> name,
                 source |-> AttrSource(slf.source, name)],
                install_guard(m, Guard("HASATTR", AttrSource(slf.source, name))))

\* TensorVariable.dynamic_getattr(tx, name); env.bound is what
\* eval(self.source.name(), scope) gives: a plain object, one that defines
\* __getattribute__ or __getattr__, None, or an exception
dynamic_getattr(slf, name, m) ==
    LET attr_source == AttrSource(slf.source, name)
    IN  IF slf.source = None THEN Raise("NotImplementedError", m)
        ELSE IF env.bound = "unevaluable" THEN Raise("NotImplementedError", m)
        ELSE IF env.bound = "None" THEN Raise("NotImplementedError", m)
        ELSE IF env.bound = "has_getattribute" THEN Raise("NotImplementedError", m)
        ELSE IF env.bound = "custom_getattr" THEN Raise("NotImplementedError", m)
        ELSE IF name \notin (GetSetDescriptors \cup TensorMethods \cup InstanceAttrs)
        THEN Raise("AttributeError", m)
        ELSE IF name \in TensorMethods THEN Raise("NotImplementedError", m)
        ELSE Return([cls |-> "BuiltVariable", attr |-> name, source |-> attr_source],
                    install_guard(m, Guard("HASATTR", attr_source)))

\* the elif chain of var_getattr that answers from the cached fields or
\* re-enters call_method
static_attr(slf, name, m) ==
    CASE name = "ndim" /\ slf.ndim # None -> Return(ConstantVariable(slf.ndim), m)
      [] name = "dtype" /\ slf.dtype # None -> Return(ConstantVariable(slf.dtype), m)
      [] name = "device" /\ slf.device # None -> Return(ConstantVariable(slf.device), m)
      [] name = "layout" /\ slf.layout # None -> Return(ConstantVariable(slf.layout), m)
      [] name = "is_cuda" /\ slf.device # None ->
            Return(ConstantVariable(PyBool(slf.device.type = "cuda")), m)
      [] name = "shape" /\ slf.size # None ->
            Return(SizeVariable([i \in 1..Len(slf.size.items) |->
                                    ConstantVariable(slf.size.items[i])]), m)
      [] name = "requires_grad" /\ slf.requires_grad # None ->
            Return(ConstantVariable(slf.requires_grad), m)
      [] name = "is_quantized" /\ slf.is_quantized # None ->
            Return(ConstantVariable(slf.is_quantized), m)
      [] name = "is_sparse" /\ slf.is_sparse # None ->
            Return(ConstantVariable(slf.is_sparse), m)
      [] name = "shape" /\ slf.size = None -> dispatch_call_method(slf, "size", <<>>, <<>>, m)
      [] name = "ndim" /\ slf.ndim = None -> dispatch_call_method(slf, "dim", <<>>, <<>>, m)
      [] name = "data" -> dispatch_call_method(slf, "detach", <<>>, <<>>, m)
      [] OTHER -> Declined(m)

\* the type guard of var_getattr made on the proxy of the result, not on self
guard_result_on_proxy(slf, name, r) ==
    IF r.res # None /\ slf.source # None
    THEN Return(SetSource(r.res, AttrSource(slf.source, name)),
                install_guard(r.m, Guard("TYPE_MATCH", NodeRef(Len(r.m.graph)))))
    ELSE r

\* the type guard of var_getattr: install_guard(TYPE_MATCH), result.source = ...
guard_result(slf, name, r) ==
    IF r.res # None /\ slf.source # None
    THEN Return(SetSource(r.res, AttrSource(slf.source, name)),
                install_guard(r.m, Guard("TYPE_MATCH", slf.source)))
    ELSE r

\* the end of var_getattr, r being the outcome of try_generic_attr_handling
getattr_fallback(slf, name, r) ==
    IF r.res # None THEN r ELSE dynamic_getattr(slf, name, r.m)

\* var_getattr delaying the graph break without looking at self.source
getattr_generic_any_source(slf, name, r) ==
    IF name \in InplaceViewOps
    THEN Return(DelayGraphBreakVariable(AttrSource(slf.source, name)), r.m)
    ELSE IF r.res # None THEN r
    ELSE getattr_fallback(slf, name, try_generic_attr_handling(slf, name, r.m))

\* var_getattr after the type guard, r being the guarded result
getattr_generic(slf, name, r) ==
    IF slf.source # None /\ name \in InplaceViewOps
    THEN Return(DelayGraphBreakVariable(AttrSource(slf.source, name)), r.m)
    ELSE IF r.res # None THEN r
    ELSE getattr_fallback(slf, name, try_generic_attr_handling(slf, name, r.m))

\* var_getattr after the elif chain, r being its outcome
getattr_guarded(slf, name, r) ==
    IF r.sig # "return" THEN r
    ELSE IF name = "__class__" THEN Return(UserDefinedClassVariable(slf.class_type), r.m)
    ELSE getattr_generic(slf, name, guard_result(slf, name, r))

\* TensorVariable.var_getattr(tx, name)
var_getattr(slf, name, m) ==
    IF env.strict_checks_enabled /\ name \in env.banned_ops THEN unimplemented(m)
    ELSE getattr_guarded(slf, name, static_attr(slf, name, m))

\* NumpyNdarrayVariable.var_getattr(tx, name); the attributes of
\* tnp.ndarray(example_value) are those of the example value, itemsize the
\* width of its dtype in bytes
numpy_var_getattr(slf, name, m) ==
    LET example_value == ExampleValue(m, slf.node)
        r == IF name = "shape" THEN example_value.size ELSE example_value.stride
        insert_into_graph ==
            WrapNew("TensorVariable",
                    create_proxy(ReadExample(m), "call_function", "numpy_attr_wrapper",
                                 <<as_proxy(slf), PyStr(name)>>, <<>>),
                    None)
    IN  CASE name \in {"T", "real", "imag"} ->
                WrapNew("NumpyNdarrayVariable",
                        create_proxy(ReadExample(m), "call_function", "numpy_attr_wrapper",
                                     <<as_proxy(slf), PyStr(name)>>, <<>>),
                        None)
          [] name = "ndim" ->
                Return(ConstantVariable(PyInt(Len(example_value.size))), ReadExample(m))
          [] name = "itemsize" ->
                Return(ConstantVariable(PyInt(IF example_value.dtype = Dtype("int64")
                                              THEN 8 ELSE 4)), ReadExample(m))
          [] name \in {"shape", "stride"} ->
                IF ~has_free_symbols_seq(r)
                THEN Return(ConstantVariable(Tup([i \in 1..Len(r) |-> ToInt(r[i])])),
                            ReadExample(m))
                ELSE insert_into_graph
          [] name = "size" ->
                IF ~has_free_symbols(Numel(example_value))
                THEN Return(ConstantVariable(ToInt(Numel(example_value))), ReadExample(m))
                ELSE insert_into_graph
          [] name \in {"base", "flags", "dtype", "__version__"} -> unimplemented(ReadExample(m))
          [] OTHER -> Raise("NotImplementedError", ReadExample(m))

(***************************************************************************)
(* Sequence unpacking                                                      *)
(***************************************************************************)
PyList(items) == [k |-> "list", items |-> items]

\* [wrap_fx_proxy_cls(type(self), tx, self.as_proxy()[i]) for i in idxes]:
\* one getitem node and one variable per index, in order
RECURSIVE unpack_items(_, _, _, _), unpack_item(_, _, _, _)
unpack_items(slf, idxes, done, m) ==
    IF idxes = <<>> THEN Return(PyList(done), m)
    ELSE unpack_item(slf, idxes, done,
                     WrapNew(slf.cls,
                             create_proxy(m, "call_function", "getitem",
                                          <<NodeRef(slf.node), PyInt(Head(idxes))>>, <<>>),
                             None))

\* item being the variable of self.as_proxy()[i], go on with the next index
unpack_item(slf, idxes, done, item) ==
    unpack_items(slf, Tail(idxes), Append(done, item.res), item.m)

\* range(length)
range(length) == [i \in 1..length |-> i - 1]

\* the length taken from dyn_length, the outcome of
\* self.call_method(tx, "size", [ConstantVariable.create(0)], {})
unpack_dyn_length(slf, dyn_length) ==
    IF dyn_length.sig # "return" THEN dyn_length
    ELSE IF dyn_length.res.cls = "SymNodeVariable"
    THEN unpack_items(slf, range(dyn_length.res.sym_num.v), <<>>, dyn_length.m)
    ELSE IF dyn_length.res.cls = "ConstantVariable"
    THEN unpack_items(slf, range(dyn_length.res.value.v), <<>>, dyn_length.m)
    ELSE Raise("AssertionError", dyn_length.m)

\* unpack_var_sequence counting the indices from 1
unpack_var_sequence_from_one(slf, idxes, m) ==
    IF idxes # None THEN unpack_items(slf, idxes.items, <<>>, m)
    ELSE IF slf.size # None /\ Len(slf.size.items) > 0
    THEN unpack_items(slf, [i \in 1..slf.size.items[1].v |-> i], <<>>, m)
    ELSE unpack_dyn_length(slf,
             dispatch_call_method(slf, "size", <<ConstantVariable(PyInt(0))>>, <<>>, m))

\* TensorVariable.unpack_var_sequence(tx, idxes=None); idxes is None or a
\* sequence of integers
unpack_var_sequence(slf, idxes, m) ==
    IF idxes # None THEN unpack_items(slf, idxes.items, <<>>, m)
    ELSE IF slf.size # None /\ Len(slf.size.items) > 0
    THEN unpack_items(slf, range(slf.size.items[1].v), <<>>, m)
    ELSE unpack_dyn_length(slf,
             dispatch_call_method(slf, "size", <<ConstantVariable(PyInt(0))>>, <<>>, m))

\* TensorVariable.has_unpack_var_sequence(tx)
has_unpack_var_sequence(slf) == slf.ndim.v > 0

(***************************************************************************)
(* SymNodeVariable.create                                                  *)
(***************************************************************************)
\* python ==  on two scalars: equal numbers are equal whatever their types
PyEq(a, b) == a # None /\ b # None /\ a.v = b.v

\* SymNodeVariable.create without the isinstance short-circuit
SymNodeVariable_create_unfolded(node, sym_num, m) ==
    LET resolved == IF sym_num = None THEN env.oracle ELSE sym_num
    IN  IF ExampleValue(m, node) # None /\ ~PyEq(ExampleValue(m, node), sym_num)
        THEN Raise("AssertionError", m)
        ELSE Return(SymNodeVariable(node, resolved), [m EXCEPT !.graph[node].ev = resolved])

\* SymNodeVariable.create without the assertion on the recorded example value
SymNodeVariable_create_unchecked(node, sym_num, m) ==
    LET resolved == IF sym_num = None THEN env.oracle ELSE sym_num
    IN  IF resolved.k \in {"sympy.Integer", "int", "bool"}
        THEN IF resolved.k = "sympy.Integer" /\ env.breakpoint_quits
             THEN Raise("BdbQuit", [m EXCEPT !.graph[node].ev = resolved])
             ELSE Return(ConstantVariable(IF resolved.k = "sympy.Integer"
                                          THEN ToInt(resolved) ELSE resolved),
                         [m EXCEPT !.graph[node].ev = resolved])
        ELSE Return(SymNodeVariable(node, resolved), [m EXCEPT !.graph[node].ev = resolved])

\* SymNodeVariable.create(tx, proxy, sym_num); env.oracle is what
\* get_fake_value(proxy.node, tx) answers, env.breakpoint_quits whether the
\* debugger entered by breakpoint() is left by quitting
SymNodeVariable_create(node, sym_num, m) ==
    LET ev == ExampleValue(m, node)
        resolved == IF sym_num = None THEN env.oracle ELSE sym_num
        m1 == [m EXCEPT !.graph[node].ev = resolved]
    IN  IF ev # None /\ ~PyEq(ev, sym_num) THEN Raise("AssertionError", m)
        ELSE IF resolved.k \in {"sympy.Integer", "int", "bool"}
        THEN IF resolved.k = "sympy.Integer" /\ env.breakpoint_quits
             THEN Raise("BdbQuit", m1)
             ELSE Return(ConstantVariable(IF resolved.k = "sympy.Integer"
                                          THEN ToInt(resolved) ELSE resolved), m1)
        ELSE Return(SymNodeVariable(node, resolved), m1)

(***************************************************************************)
(* The calls made on self.  A frame makes one call and may repeat it, up   *)
(* to MaxRepeat times; an exception ends the frame.                        *)
(***************************************************************************)
NoCall ==
    [op |-> "none", name |-> "", args |-> <<>>, kwargs |-> <<>>, sig |-> "none",
     res |-> None, reads |-> 0, base |-> 0, gbase |-> {}, hbase |-> 0, peak |-> 0,
     trail |-> <<>>]

Outcome(op, name, args, kwargs, r) ==
    [op |-> op, name |-> name, args |-> args, kwargs |-> kwargs, sig |-> r.sig,
     res |-> r.res, reads |-> r.m.reads, base |-> Len(graph), gbase |-> guards,
     hbase |-> Len(side_effects), peak |-> r.m.peak, trail |-> r.m.trail]

MayCall(op, name, args, kwargs) ==
    \/ calls = 0
    \/ /\ calls <= MaxRepeat
       /\ last.sig = "return"
       /\ last.op = op /\ last.name = name /\ last.args = args /\ last.kwargs = kwargs

Record(op, name, args, kwargs, r) ==
    /\ graph' = r.m.graph
    /\ guards' = r.m.guards
    /\ side_effects' = r.m.side_effects
    /\ last' = Outcome(op, name, args, kwargs, r)
    /\ prev' = last
    /\ calls' = calls + 1
    /\ UNCHANGED <<self, origin, env>>

\* self.call_method(tx, name, args, kwargs)
CallMethod(name, args, kwargs) ==
    /\ MayCall("call_method", name, args, kwargs)
    /\ Record("call_method", name, args, kwargs,
              dispatch_call_method(self, name, args, kwargs, Machine(graph, guards)))

\* self.var_getattr(tx, name)
VarGetattr(name) ==
    /\ MayCall("var_getattr", name, <<>>, <<>>)
    /\ Record("var_getattr", name, <<>>, <<>>,
              IF self.cls = "NumpyNdarrayVariable"
              THEN numpy_var_getattr(self, name, Machine(graph, guards))
              ELSE var_getattr(self, name, Machine(graph, guards)))

\* self.unpack_var_sequence(tx, idxes), made when has_unpack_var_sequence
UnpackVarSequence(idxes) ==
    /\ MayCall("unpack_var_sequence", "", <<idxes>>, <<>>)
    /\ self.ndim # None /\ has_unpack_var_sequence(self)
    /\ Record("unpack_var_sequence", "", <<idxes>>, <<>>,
              unpack_var_sequence(self, idxes, Machine(graph, guards)))

\* SymNodeVariable.create(tx, proxy, sym_num) on the proxy of node
CreateSymNode(node, sym_num) ==
    /\ MayCall("create", "", <<sym_num>>, <<>>)
    /\ node \in 1..Len(graph)
    /\ Record("create", "", <<sym_num>>, <<>>,
              SymNodeVariable_create(node, sym_num, Machine(graph, guards)))

(***************************************************************************)
(* The frames explored                                                     *)
(***************************************************************************)
\* config._autograd_backward_strict_mode_banned_ops
BannedOps == {"stride", "requires_grad", "layout", "data"}

DefaultEnv ==
    [strict_checks_enabled |-> FALSE, banned_ops |-> BannedOps, grad_enabled |-> TRUE,
     trace_numpy |-> TRUE, np_available |-> TRUE, capture_scalar_outputs |-> FALSE,
     compiled_autograd_enabled |-> FALSE, bound |-> "plain", oracle |-> PyInt(0),
     breakpoint_quits |-> FALSE]

Placeholder(name, ev) ==
    [op |-> "placeholder", target |-> name, args |-> <<>>, kwargs |-> <<>>, ev |-> ev]

Start(s, v, g, e) ==
    /\ self = s /\ origin = v /\ env = e /\ graph = g
    /\ guards = {} /\ side_effects = <<>> /\ calls = 0 /\ last = NoCall /\ prev = NoCall

Shapes == UNION {[1..n -> Extents] : n \in 0..MaxRank}

\* a symbolic size whose symbols have since been refined to constants
Refined(size) ==
    [i \in 1..Len(size) |-> IF size[i].k = "sym" THEN SymConst(size[i].v) ELSE size[i]]

DefaultTensor(size) ==
    TensorValue(size, Dtype("float32"), Device("cpu", None), PyStr("strided"), FALSE,
                PyClass("torch.Tensor"))

\* the properties of a variable built without the size-dependent ones
Uncached(props) == [props EXCEPT !.size = None, !.stride = None, !.is_contiguous = None]

\* Frames over every shape: the variable is specialize(value), or the same
\* without the cached sizes; its node has no example value, the value
\* itself, or the value with its symbols refined.
Init ==
    \E size \in Shapes, cached \in BOOLEAN, evk \in {"none", "same", "refined"},
       cls \in {"TensorVariable", "UnspecializedPythonVariable", "FakeItemVariable"} :
        LET v == DefaultTensor(size)
            symbolic == has_free_symbols_tensor(v)
            ev == CASE evk = "none" -> None
                    [] evk = "same" -> v
                    [] evk = "refined" -> DefaultTensor(Refined(size))
        IN  /\ evk = "refined" => symbolic
            /\ ~cached => ~symbolic
            /\ Start(NewTensorVariable(cls, 1,
                                       IF cached THEN specialize(v)
                                       ELSE Uncached(specialize(v)), None),
                     v, <<Placeholder("x", ev)>>, DefaultEnv)

Dims == {ConstantVariable(PyInt(d)) : d \in {-1, 0, 1}}

ShapeCalls ==
    {[name |-> n, args |-> <<>>, kwargs |-> <<>>] :
        n \in {"size", "stride", "numel", "dim", "__len__", "detach"}}
    \cup {[name |-> n, args |-> <<d>>, kwargs |-> <<>>] : n \in {"size", "stride"}, d \in Dims}
    \cup {[name |-> "size", args |-> <<>>,
           kwargs |-> <<[key |-> "dim", val |-> ConstantVariable(PyInt(0))]>>],
          [name |-> "size", args |-> <<ConstantVariable(PyInt(0)), ConstantVariable(PyInt(1))>>,
           kwargs |-> <<>>]}

Next ==
    \/ \E c \in ShapeCalls : CallMethod(c.name, c.args, c.kwargs)
    \/ \E n \in {"shape", "ndim"} : VarGetattr(n)
    \/ UnpackVarSequence(None)

Spec == Init /\ [][Next]_vars

(***************************************************************************)
(* Frames for SymNodeVariable.create: node 2 is a scalar node with or      *)
(* without an example value; the oracle answers that value when there is   *)
(* one.                                                                    *)
(***************************************************************************)
\* the scalars a sym_num can be: python int, bool and float, sympy.Integer,
\* and a SymInt whose expression is a constant or has free symbols
ScalarKinds == {"int", "float", "sympy.Integer", "symconst", "sym"}

Scalars ==
    {[k |-> kk, v |-> n] : kk \in ScalarKinds, n \in 0..MaxExtent}
    \cup {PyBool(TRUE), PyBool(FALSE)}

ScalarNode(ev) ==
    [op |-> "call_method", target |-> "item", args |-> <<NodeRef(1)>>, kwargs |-> <<>>,
     ev |-> ev]

InitSym ==
    \E ev \in Scalars \cup {None}, oracle \in Scalars, quits \in BOOLEAN :
        /\ ev # None => oracle = ev
        /\ Start(NewTensorVariable("TensorVariable", 1, specialize(DefaultTensor(<<>>)), None),
                 DefaultTensor(<<>>),
                 <<Placeholder("x", DefaultTensor(<<>>)), ScalarNode(ev)>>,
                 [DefaultEnv EXCEPT !.oracle = oracle, !.breakpoint_quits = quits])

NextSym == \E sym_num \in Scalars \cup {None} : CreateSymNode(2, sym_num)

SpecSym == InitSym /\ [][NextSym]_vars

(***************************************************************************)
(* Frames for the handlers that look at dtype, device, layout and the      *)
(* gradient mode.  Nodes 2..5 are the tensors used as keys, nodes 6 and 7  *)
(* the tensors used as values.                                             *)
(***************************************************************************)
ArgValue(dtype, requires_grad) ==
    TensorValue(<<PyInt(2)>>, Dtype(dtype), Device("cpu", None), PyStr("strided"),
                requires_grad, PyClass("torch.Tensor"))

ArgTensor(node, dtype, requires_grad) ==
    NewTensorVariable("TensorVariable", node, specialize(ArgValue(dtype, requires_grad)), None)

KeyDtypes == <<"bool", "int8", "int64", "float32">>

KeyTensor(i) == ArgTensor(1 + i, KeyDtypes[i], FALSE)

ValueTensor(requires_grad) == ArgTensor(IF requires_grad THEN 7 ELSE 6, "float32", requires_grad)

ArgNodes ==
    [i \in 1..4 |-> Placeholder("key", ArgValue(KeyDtypes[i], FALSE))]
    \o <<Placeholder("value", ArgValue("float32", FALSE)),
         Placeholder("value", ArgValue("float32", TRUE))>>

Zero == ConstantVariable(PyInt(0))

Keys ==
    {KeyTensor(i) : i \in 1..4}
    \cup {Zero,
          TupleVariable(<<Zero, KeyTensor(1)>>),
          TupleVariable(<<Zero, KeyTensor(4)>>),
          TupleVariable(<<TupleVariable(<<KeyTensor(2)>>), Zero>>),
          TupleVariable(<<TupleVariable(<<KeyTensor(3)>>), Zero>>),
          ListVariable(<<KeyTensor(1)>>)}

Values == {ValueTensor(TRUE), ValueTensor(FALSE), ConstantVariable(PyInt(1))}

\* torch.FloatTensor as a constant argument
TensorTypeConst == ConstantVariable([k |-> "tensortype", name |-> "FloatTensor"])

Classes ==
    {TensorSubclassVariable(PyClass("MyTensor"), LocalSource("MyTensor")),
     TensorSubclassVariable(PyClass("MyTensor"), None),
     UserDefinedClassVariable(PyClass("MyTensor")),
     Zero}

Call(name, args, kwargs) == [name |-> name, args |-> args, kwargs |-> kwargs]

Kw(key, val) == [key |-> key, val |-> val]

DispatchCalls ==
    {Call("__setitem__", <<k, v>>, <<>>) : k \in Keys, v \in Values}
    \cup {Call("__setitem__", <<k>>, <<Kw("value", ValueTensor(TRUE))>>) : k \in Keys}
    \cup {Call("__setitem__", <<k>>, <<>>) : k \in Keys}
    \cup {Call("type", a, <<>>) :
            a \in {<<>>, <<TensorTypeConst>>, <<TensorTypeConst, ConstantVariable(PyBool(TRUE))>>,
                   <<ConstantVariable(Dtype("int64"))>>, <<KeyTensor(1)>>,
                   <<TensorTypeConst, Zero, Zero>>}}
    \cup {Call("type", <<>>, <<Kw("dtype", TensorTypeConst)>>),
          Call("type", <<>>, <<Kw("non_blocking", ConstantVariable(PyBool(TRUE)))>>)}
    \cup {Call("as_subclass", <<c>>, <<>>) : c \in Classes}
    \cup {Call("as_subclass", <<>>, <<Kw("cls", c)>>) : c \in Classes}
    \cup {Call("as_subclass", <<>>, <<>>), Call("as_subclass", <<Zero, Zero>>, <<>>)}
    \cup {Call("numpy", <<>>, <<>>),
          Call("numpy", <<>>, <<Kw("force", ConstantVariable(PyBool(TRUE)))>>),
          Call("numpy", <<>>, <<Kw("force", ConstantVariable(PyBool(FALSE)))>>),
          Call("numpy", <<ConstantVariable(PyBool(TRUE))>>, <<>>),
          Call("numpy", <<>>, <<Kw("dtype", Zero)>>)}
    \cup {Call("size", <<Zero, Zero>>, <<>>), Call("numel", <<Zero>>, <<>>),
          Call("dim", <<>>, <<Kw("dim", Zero)>>), Call("__len__", <<Zero>>, <<>>),
          Call("backward", <<>>, <<>>), Call("item", <<>>, <<>>),
          Call("detach", <<>>, <<>>)}

\* the properties known of self: all of them, or all but the dtype and/or
\* the device
Known(props, known) ==
    [props EXCEPT !.dtype = IF known \in {"all", "no_device"} THEN @ ELSE None,
                  !.device = IF known \in {"all", "no_dtype"} THEN @ ELSE None]

InitDispatch ==
    \E dtype \in {"float32", "int64", "bool"},
       device \in {Device("cpu", None), Device("cuda", PyInt(0))},
       layout \in {"strided", "sparse_coo"},
       known \in {"all", "no_dtype", "no_device", "neither"},
       grad_enabled \in BOOLEAN :
        LET v == TensorValue(<<PyInt(2)>>, Dtype(dtype), device, PyStr(layout), FALSE,
                             PyClass("torch.Tensor"))
        IN  Start(NewTensorVariable("TensorVariable", 1, Known(specialize(v), known), None),
                  v, <<Placeholder("x", v)>> \o ArgNodes,
                  [DefaultEnv EXCEPT !.grad_enabled = grad_enabled])

NextDispatch == \E c \in DispatchCalls : CallMethod(c.name, c.args, c.kwargs)

SpecDispatch == InitDispatch /\ [][NextDispatch]_vars

(***************************************************************************)
(* Frames for var_getattr: the shape frames with and without a source,     *)
(* and every kind of bound real value.                                     *)
(***************************************************************************)
AttrNames ==
    {"shape", "ndim", "dtype", "device", "layout", "is_cuda", "requires_grad", "data",
     "real", "grad", "my_attr", "resize_", "__class__", "size", "nope"}

BoundKinds == {"plain", "unevaluable", "None", "has_getattribute", "custom_getattr"}

InitAttr ==
    \E size \in Shapes, cached \in BOOLEAN, evk \in {"none", "same", "refined"},
       source \in {None, LocalSource("x")}, bound \in BoundKinds :
        LET v == DefaultTensor(size)
            symbolic == has_free_symbols_tensor(v)
            ev == CASE evk = "none" -> None
                    [] evk = "same" -> v
                    [] evk = "refined" -> DefaultTensor(Refined(size))
        IN  /\ evk = "refined" => symbolic
            /\ ~cached => ~symbolic
            /\ bound # "plain" => (size = <<>> /\ source # None)
            /\ Start(NewTensorVariable("TensorVariable", 1,
                                       IF cached THEN specialize(v)
                                       ELSE Uncached(specialize(v)), source),
                     v, <<Placeholder("x", ev)>>, [DefaultEnv EXCEPT !.bound = bound])

NextAttr == \E name \in AttrNames : VarGetattr(name)

SpecAttr == InitAttr /\ [][NextAttr]_vars

(***************************************************************************)
(* Frames with and without strict checks, under the shipped list of banned *)
(* operations and under another configured list.                           *)
(***************************************************************************)
BannedLists == {BannedOps, {"__class__", "size", "shape", "resize_"}}

StrictNames == UNION BannedLists \cup {"dtype", "detach"}

InitStrict ==
    \E size \in Shapes, source \in {None, LocalSource("x")}, strict \in BOOLEAN,
       banned \in BannedLists :
        Start(NewTensorVariable("TensorVariable", 1, specialize(DefaultTensor(size)), source),
              DefaultTensor(size), <<Placeholder("x", DefaultTensor(size))>>,
              [DefaultEnv EXCEPT !.strict_checks_enabled = strict, !.banned_ops = banned])

NextStrict ==
    \/ \E name \in StrictNames : VarGetattr(name)
    \/ \E name \in StrictNames : CallMethod(name, <<>>, <<>>)

SpecStrict == InitStrict /\ [][NextStrict]_vars

(***************************************************************************)
(* Frames for the handlers that rewrite a call into other calls or record  *)
(* a side effect, under every setting of the switches they read.           *)
(***************************************************************************)
UserFunctionVariable(fn) == [cls |-> "UserFunctionVariable", fn |-> fn, source |-> None]

Hook == UserFunctionVariable("hook_fn")

Two == ConstantVariable(PyInt(2))

RewriteCalls ==
    {Call(n, a, <<>>) : n \in {"register_hook", "register_post_accumulate_grad_hook"},
                        a \in {<<Hook>>, <<>>, <<Hook, Hook>>}}
    \cup {Call("register_hook", <<>>, <<Kw("hook", Hook)>>)}
    \cup {Call("__contains__", <<a>>, <<>>) : a \in {Zero, ValueTensor(FALSE)}}
    \cup {Call("__contains__", <<>>, <<>>), Call("item", <<>>, <<>>)}
    \cup {Call("add_", <<a>>, kw) :
            a \in {ValueTensor(FALSE), ValueTensor(TRUE)},
            kw \in {<<>>, <<Kw("alpha", Two)>>, <<Kw("alpha", Zero)>>}}
    \cup {Call("add_", <<ValueTensor(FALSE), Two>>, <<>>)}
    \cup {Call("addcdiv_", <<ValueTensor(FALSE), ValueTensor(TRUE)>>, kw) :
            kw \in {<<>>, <<Kw("value", Two)>>}}
    \cup {Call("addcdiv_", <<ValueTensor(FALSE)>>, <<Kw("value", Two)>>)}
    \cup {Call("numpy", <<>>, kw) :
            kw \in {<<>>, <<Kw("force", ConstantVariable(PyBool(TRUE)))>>,
                    <<Kw("force", ConstantVariable(PyBool(FALSE)))>>}}

InitRewrite ==
    \E layout \in {"strided", "sparse_coo"}, source \in {None, LocalSource("x")},
       compiled \in BOOLEAN, capture \in BOOLEAN, trace_numpy \in BOOLEAN,
       np_available \in BOOLEAN :
        LET v == TensorValue(<<PyInt(2)>>, Dtype("float32"), Device("cpu", None),
                             PyStr(layout), FALSE, PyClass("torch.Tensor"))
        IN  Start(NewTensorVariable("TensorVariable", 1, specialize(v), source),
                  v, <<Placeholder("x", v)>> \o ArgNodes,
                  [DefaultEnv EXCEPT !.compiled_autograd_enabled = compiled,
                                     !.capture_scalar_outputs = capture,
                                     !.trace_numpy = trace_numpy,
                                     !.np_available = np_available])

NextRewrite == \E c \in RewriteCalls : CallMethod(c.name, c.args, c.kwargs)

SpecRewrite == InitRewrite /\ [][NextRewrite]_vars

(***************************************************************************)
(* Frames for the re-entrant dispatches: self is a tensor or an array      *)
(* variable with all, some or none of its shape fields cached, with and    *)
(* without the strict checks and the capture of scalar outputs; every      *)
(* call_method, var_getattr and unpack_var_sequence that re-enters         *)
(* call_method is made, next to ones that do not.                          *)
(***************************************************************************)
SizeArg == SizeVariable(<<ConstantVariable(PyInt(2))>>)

ForceArg == ConstantVariable(PyBool(TRUE))

ReentryCalls ==
    {Call(n, <<>>, <<>>) :
        n \in {"size", "dim", "detach", "item", "__len__", "numpy", "tolist", "new",
               "new_empty", "sum"}}
    \cup {Call("size", <<Zero>>, <<>>), Call("numpy", <<>>, <<Kw("force", ForceArg)>>)}
    \cup {Call(n, <<SizeArg>>, <<>>) : n \in {"new", "new_empty"}}
    \cup {Call("new", <<SizeArg, Zero>>, <<>>), Call("new", <<Zero>>, <<>>)}
    \cup {Call("add_", <<ValueTensor(FALSE)>>, kw) : kw \in {<<>>, <<Kw("alpha", Two)>>}}
    \cup {Call("addcdiv_", <<ValueTensor(FALSE), ValueTensor(TRUE)>>, kw) :
            kw \in {<<>>, <<Kw("value", Two)>>}}
    \cup {Call("__contains__", <<a>>, <<>>) : a \in {Zero, ValueTensor(FALSE)}}

InitReentry ==
    \E size \in {<<>>, <<PyInt(2)>>, <<SymFree(2)>>, <<PyInt(2), PyInt(1)>>},
       cls \in {"TensorVariable", "NumpyNdarrayVariable"},
       known \in {"all", "no_sizes", "no_ndim"},
       strict \in BOOLEAN, capture \in BOOLEAN :
        LET v == TensorValue(size, Dtype("int64"), Device("cpu", None), PyStr("strided"),
                             FALSE, PyClass("torch.Tensor"))
        IN  /\ known # "all" => (cls = "TensorVariable" /\ ~has_free_symbols_tensor(v))
            /\ Start(NewTensorVariable(cls, 1,
                         CASE known = "all" -> specialize(v)
                           [] known = "no_sizes" -> Uncached(specialize(v))
                           [] known = "no_ndim" ->
                                [Uncached(specialize(v)) EXCEPT !.ndim = None],
                         None),
                     v, <<Placeholder("x", v)>> \o ArgNodes,
                     [DefaultEnv EXCEPT !.strict_checks_enabled = strict,
                                        !.capture_scalar_outputs = capture])

NextReentry ==
    \/ \E c \in ReentryCalls : CallMethod(c.name, c.args, c.kwargs)
    \/ \E name \in {"shape", "ndim", "data", "dtype", "real", "size", "nope"} :
          VarGetattr(name)
    \/ UnpackVarSequence(None)

SpecReentry == InitReentry /\ [][NextReentry]_vars

(***************************************************************************)
(* Frames for NumpyNdarrayVariable.call_method: self is the array variable *)
(* of an integer or a float tensor of every shape.                         *)
(***************************************************************************)
NumpyCalls ==
    {Call(n, <<>>, <<>>) : n \in {"__len__", "size", "tolist", "tobytes", "sum"}}
    \cup {Call("size", <<Zero>>, <<>>), Call("reshape", <<Two>>, <<>>)}
    \cup {Call(n, <<>>, <<Kw("a_min", Zero), Kw("a_max", Two)>>) : n \in {"clip", "astype"}}
    \cup {Call("clip", <<Zero>>, <<Kw("a_max", Two)>>),
          Call("clip", <<>>, <<Kw("min", Zero), Kw("a_max", Two), Kw("a_min", Two)>>)}

InitNumpy ==
    \E size \in Shapes, dtype \in {"int64", "float32"} :
        LET v == TensorValue(size, Dtype(dtype), Device("cpu", None), PyStr("strided"),
                             FALSE, PyClass("torch.Tensor"))
        IN  Start(NewTensorVariable("NumpyNdarrayVariable", 1, specialize(v), None),
                  v, <<Placeholder("x", v)>>, DefaultEnv)

NextNumpy == \E c \in NumpyCalls : CallMethod(c.name, c.args, c.kwargs)

SpecNumpy == InitNumpy /\ [][NextNumpy]_vars

(***************************************************************************)
(* What the latest call was and what it left behind                        *)
(***************************************************************************)
\* the dim argument of the latest call, None when none was given
DimArg ==
    IF last.args # <<>> THEN last.args[1].value
    ELSE IF last.kwargs # <<>> THEN last.kwargs[1].val.value
    ELSE None

\* the latest call was size or stride, with at most the dim argument
SizeStrideCalled ==
    /\ last.op = "call_method" /\ last.name \in {"size", "stride"}
    /\ Len(last.args) + Len(last.kwargs) <= 1

\* the sizes or the strides of a tensor value
Own(t, name) == IF name = "size" THEN t.size ELSE t.stride

\* s has the element the latest call asks for
InRange(s) == DimArg = None \/ PyIndex(Len(s), DimArg.v) > 0

\* what the latest call asks of s: all of it, or the element at dim
Asked(s) == IF DimArg = None THEN s ELSE <<s[PyIndex(Len(s), DimArg.v)]>>

\* the numbers of a sequence of scalars, and the same as python ints
Numbers(s) == [i \in 1..Len(s) |-> s[i].v]

Ints(s) == [i \in 1..Len(s) |-> PyInt(s[i].v)]

\* the constant variable that answers the latest size/stride call with s
ConstantOf(s) ==
    IF DimArg # None THEN ConstantVariable(s[1])
    ELSE IF last.name = "size"
    THEN SizeVariable([i \in 1..Len(s) |-> ConstantVariable(s[i])])
    ELSE ConstantVariable(Tup(s))

\* the latest call recorded no node
NoNode == Len(graph) = last.base

\* the latest call returned after recording exactly one call_method node of
\* its name over self and its (constant) arguments, and not a constant
DeferredCall ==
    /\ last.sig = "return"
    /\ Len(graph) = last.base + 1
    /\ graph[Len(graph)].op = "call_method"
    /\ graph[Len(graph)].target = last.name
    /\ graph[Len(graph)].args =
           <<NodeRef(self.node)>> \o [i \in 1..Len(last.args) |-> last.args[i].value]
    /\ graph[Len(graph)].kwargs =
           [i \in 1..Len(last.kwargs) |->
               [key |-> last.kwargs[i].key, val |-> last.kwargs[i].val.value]]
    /\ last.res # None /\ last.res.cls # "ConstantVariable"

\* C1: a variable specialized from a value with a symbolic dimension caches
\* neither size nor stride; and when the cached size/stride is absent,
\* size/stride (with or without dim) is answered by a constant, without a
\* node, only if the node's example value answers without free symbols (the
\* constant being that answer as ints), while with no example value or a
\* symbolic answer the call is recorded as one deferred call_method node.
C1_SizeStrideOracleGate ==
    /\ (origin # None /\ has_free_symbols_tensor(origin))
          => (self.size = None /\ self.stride = None)
    /\ (SizeStrideCalled /\ Own(self, last.name) = None) =>
          LET ev == graph[self.node].ev
          IN  IF ev = None THEN DeferredCall
              ELSE IF ~InRange(Own(ev, last.name)) THEN TRUE
              ELSE IF has_free_symbols_seq(Asked(Own(ev, last.name))) THEN DeferredCall
              ELSE /\ last.sig = "return" /\ NoNode
                   /\ last.res = ConstantOf(Ints(Asked(Own(ev, last.name))))

\* C1 witness: stride(dim) on a variable without cached strides whose
\* example value has a symbolic stride there was deferred
C1_Witness ==
    /\ SizeStrideCalled /\ last.name = "stride" /\ DimArg # None
    /\ self.stride = None /\ graph[self.node].ev # None
    /\ InRange(graph[self.node].ev.stride)
    /\ has_free_symbols_seq(Asked(graph[self.node].ev.stride))
    /\ DeferredCall

\* the latest call was size, stride or numel on a variable with cached sizes
\* specialized from a symbol-free value, asking for something the value has
StaticCalled ==
    /\ last.op = "call_method" /\ self.size # None
    /\ origin # None /\ ~has_free_symbols_tensor(origin)
    /\ \/ SizeStrideCalled /\ InRange(origin.size)
       \/ last.name = "numel" /\ last.args = <<>> /\ last.kwargs = <<>>

\* the numbers in the result of the latest size/stride call
ResultNumbers ==
    IF DimArg # None THEN <<last.res.value.v>>
    ELSE IF last.name = "size"
    THEN [i \in 1..Len(last.res.items) |-> last.res.items[i].value.v]
    ELSE Numbers(last.res.value.items)

UnpackCalled ==
    /\ last.op = "unpack_var_sequence" /\ last.args = <<None>>
    /\ self.size # None /\ Len(self.size.items) = 1

\* C5: unpack_var_sequence without indices on a rank-1 variable of known
\* length N returns N variables; the i-th wraps the getitem node of the
\* parent's proxy at index i, for i = 0..N-1 in order, and has the parent's
\* class.
C5_UnpackKnownLength ==
    UnpackCalled =>
        LET N == self.size.items[1].v
        IN  /\ last.sig = "return" /\ last.res.k = "list"
            /\ Len(last.res.items) = N
            /\ Len(graph) = last.base + N
            /\ \A i \in 1..N :
                  /\ graph[last.base + i].op = "call_function"
                  /\ graph[last.base + i].target = "getitem"
                  /\ graph[last.base + i].args = <<NodeRef(self.node), PyInt(i - 1)>>
                  /\ last.res.items[i].cls = self.cls
                  /\ last.res.items[i].node = last.base + i

\* C5 witness: a FakeItemVariable of length 2 was unpacked into two variables
C5_Witness ==
    /\ UnpackCalled /\ self.cls = "FakeItemVariable" /\ self.size.items[1].v = 2
    /\ last.sig = "return" /\ Len(last.res.items) = 2

\* the value the latest create resolved: the sym_num supplied, or the
\* oracle's when none was
Resolved == IF last.args[1] = None THEN env.oracle ELSE last.args[1]

CreateReturned == last.op = "create" /\ last.sig = "return"

\* C3 (as claimed): create returns a ConstantVariable, never a
\* SymNodeVariable, whenever the resolved value has no free symbols: an int,
\* a bool, a float, a symbol-free symbolic wrapper.
C3_NeverSymNodeWhenSymbolFree ==
    (CreateReturned /\ ~has_free_symbols(Resolved)) => last.res.cls = "ConstantVariable"

\* C3 (amended): create folds exactly the python ints and bools into the
\* ConstantVariable of that value (it fails at most the consistency
\* assertion), never returns a SymNodeVariable for a sympy.Integer, and
\* returns the SymNodeVariable of the node and the value for a float and
\* for a symbolic wrapper, symbol-free or not.
C3_ConstantForIntAndBool ==
    last.op = "create" =>
        /\ Resolved.k \in {"int", "bool"} =>
              /\ last.sig \in {"return", "AssertionError"}
              /\ last.sig = "return" => last.res = ConstantVariable(Resolved)
        /\ (Resolved.k = "sympy.Integer" /\ last.sig = "return") =>
              last.res = ConstantVariable(PyInt(Resolved.v))
        /\ (Resolved.k \in {"float", "symconst", "sym"} /\ last.sig = "return") =>
              last.res = SymNodeVariable(2, Resolved)
        /\ last.sig = "return" => graph[2].ev = Resolved

\* C3 witness: a symbol-free symbolic wrapper answered by the oracle came
\* back as a SymNodeVariable
C3_Witness ==
    /\ CreateReturned /\ last.args[1] = None /\ Resolved.k = "symconst"
    /\ last.res.cls = "SymNodeVariable" /\ last.res.sym_num = Resolved

\* the latest call recorded exactly the node of default dispatch: a
\* call_method node of its name over self and its arguments
RecordedDefault ==
    /\ Len(graph) = last.base + 1
    /\ graph[Len(graph)].op = "call_method"
    /\ graph[Len(graph)].target = last.name
    /\ graph[Len(graph)].args = proxy_args(<<self>> \o last.args)
    /\ graph[Len(graph)].kwargs = proxy_kwargs(last.kwargs)

\* the variables at the leaves of a key, through tuples at any depth
RECURSIVE TupleLeaves(_)
TupleLeaves(v) ==
    IF v.cls = "TupleVariable"
    THEN UNION {TupleLeaves(v.items[i]) : i \in 1..Len(v.items)}
    ELSE {v}

\* the key is, or is a tuple that contains, a tensor of dtype bool or int8
MaskKey(key) ==
    \E x \in TupleLeaves(key) :
        IsTensorVariable(x) /\ x.dtype \in {Dtype("bool"), Dtype("int8")}

\* the latest call was __setitem__(key, value)
SetitemCalled ==
    /\ last.op = "call_method" /\ last.name = "__setitem__"
    /\ Len(last.args) + Len(last.kwargs) = 2

SetKey == last.args[1]

SetValue == IF Len(last.args) = 2 THEN last.args[2] ELSE last.kwargs[1].val

\* __setitem__ has no sound backward here
MaskedGradWrite ==
    /\ MaskKey(SetKey)
    /\ IsTensorVariable(SetValue) /\ SetValue.requires_grad = PyBool(TRUE)
    /\ env.grad_enabled

\* C4: __setitem__(key, value) fails with Unsupported, recording nothing,
\* exactly when the key is or contains (in tuples, at any depth) a bool or
\* int8 tensor, the value is a tensor that requires grad and grad mode is
\* enabled; otherwise it records one setitem node over self, key and value
\* and returns the constant None.
C4_SetitemMaskGrad ==
    SetitemCalled =>
        IF MaskedGradWrite
        THEN last.sig = "Unsupported" /\ NoNode
        ELSE /\ last.sig = "return" /\ last.res = ConstantVariable(None)
             /\ Len(graph) = last.base + 1
             /\ graph[Len(graph)].op = "call_function"
             /\ graph[Len(graph)].target = "setitem"
             /\ graph[Len(graph)].args = proxy_args(<<self, SetKey, SetValue>>)
             /\ graph[Len(graph)].kwargs = <<>>

\* C4 witness: an int8 tensor inside a tuple inside the key, a value that
\* requires grad, grad mode disabled: the write was recorded
C4_Witness ==
    /\ SetitemCalled /\ ~env.grad_enabled
    /\ SetKey = TupleVariable(<<TupleVariable(<<KeyTensor(2)>>), Zero>>)
    /\ SetValue = ValueTensor(TRUE)
    /\ last.sig = "return" /\ last.res = ConstantVariable(None)
    /\ graph[Len(graph)].target = "setitem"

\* the latest call was type() without arguments
TypeCalled ==
    /\ last.op = "call_method" /\ last.name = "type"
    /\ last.args = <<>> /\ last.kwargs = <<>>

\* the legacy tensor type names
LegacyName(dtype) ==
    CASE dtype = "float32" -> "FloatTensor"
      [] dtype = "int8" -> "CharTensor"
      [] dtype = "int64" -> "LongTensor"
      [] dtype = "bool" -> "BoolTensor"

\* C6: type() on a variable with known dtype and device returns, without a
\* node, the constant "torch.<legacy name>", prefixed "torch.cuda." on a
\* cuda device ("torch.FloatTensor" and "torch.cuda.FloatTensor" for
\* float32); with the dtype or the device unknown the call is recorded by
\* default dispatch.
C6_TypeLegacyName ==
    TypeCalled =>
        /\ last.sig = "return"
        /\ IF self.dtype # None /\ self.device # None
           THEN /\ NoNode
                /\ last.res.cls = "ConstantVariable"
                /\ last.res.value =
                      PyStr((IF self.device.type = "cuda" THEN "torch.cuda." ELSE "torch.")
                            \o LegacyName(self.dtype.name))
                /\ (self.dtype.name = "float32" /\ self.device.type = "cpu")
                      => last.res.value.s = "torch.FloatTensor"
                /\ (self.dtype.name = "float32" /\ self.device.type = "cuda")
                      => last.res.value.s = "torch.cuda.FloatTensor"
           ELSE RecordedDefault /\ last.res.cls # "ConstantVariable"

\* C6 witness: type() of a float32 cuda tensor
C6_Witness ==
    /\ TypeCalled /\ self.dtype = Dtype("float32")
    /\ self.device # None /\ self.device.type = "cuda"
    /\ last.res = ConstantVariable(PyStr("torch.cuda.FloatTensor")) /\ NoNode

\* the latest call was as_subclass(cls)
AsSubclassCalled ==
    /\ last.op = "call_method" /\ last.name = "as_subclass"
    /\ Len(last.args) + Len(last.kwargs) = 1

SubclassArg == IF last.args # <<>> THEN last.args[1] ELSE last.kwargs[1].val

\* C7: as_subclass(cls) returns normally; it gives the
\* TensorWithTFOverrideVariable, without a node, only for a
\* TensorSubclassVariable with a source, and otherwise is recorded as the
\* default call_method node.
C7_AsSubclassNeedsSource ==
    AsSubclassCalled =>
        /\ last.sig = "return"
        /\ IF SubclassArg.cls = "TensorSubclassVariable" /\ SubclassArg.source # None
           THEN /\ NoNode
                /\ last.res.cls = "TensorWithTFOverrideVariable"
                /\ last.res.class_type = SubclassArg.value
           ELSE /\ RecordedDefault
                /\ last.res.cls = "TensorVariable" /\ last.res.node = Len(graph)

\* C7 witness: a TensorSubclassVariable without a source was recorded
C7_Witness ==
    /\ AsSubclassCalled
    /\ SubclassArg = TensorSubclassVariable(PyClass("MyTensor"), None)
    /\ last.sig = "return" /\ RecordedDefault

\* the handler of the latest call_method raised TypeError
HandlerTypeError ==
    /\ last.op = "call_method" /\ last.name \in HandlerNames
    /\ Handler(self, last.name, last.args, last.kwargs,
               Machine(SubSeq(graph, 1, last.base), last.gbase)).sig = "TypeError"

\* C10 (as claimed): when the handler raises TypeError the call returns
\* normally with the default call_method node recorded.
C10_TypeErrorFallsThrough ==
    HandlerTypeError => (last.sig = "return" /\ RecordedDefault)

\* C10 (amended): when the handler raises TypeError the call fails with
\* Unsupported and records no node and no guard.
C10_TypeErrorIsUnsupported ==
    HandlerTypeError => (last.sig = "Unsupported" /\ NoNode /\ guards = last.gbase)

\* C10 witness: numpy(True), force being keyword-only, failed
C10_Witness ==
    /\ HandlerTypeError /\ last.name = "numpy" /\ Len(last.args) = 1
    /\ last.sig = "Unsupported" /\ NoNode

\* the latest call was var_getattr("shape") and returned
ShapeAsked == last.op = "var_getattr" /\ last.name = "shape" /\ last.sig = "return"

\* the scalars (or, for a tensor, the properties) a result holds, without
\* the identity of its node
Contents(res) ==
    IF res.cls = "SizeVariable"
    THEN [i \in 1..Len(res.items) |->
            IF res.items[i].cls = "ConstantVariable"
            THEN res.items[i].value ELSE res.items[i].sym_num]
    ELSE IF IsTensorVariable(res) THEN <<[res EXCEPT !.node = 0]>>
    ELSE <<res>>

\* C8: a second var_getattr("shape") right after the first returns a result
\* with the same contents, and changes nothing but the graph, which it only
\* extends; the guards stay the same set.
C8_ShapeTwice ==
    [][(calls = 1 /\ ShapeAsked /\ calls' = 2) =>
          /\ last'.sig = "return"
          /\ Contents(last'.res) = Contents(last.res)
          /\ last'.res.source = last.res.source
          /\ SubSeq(graph', 1, Len(graph)) = graph
          /\ guards' = guards
          /\ self' = self /\ env' = env /\ origin' = origin]_vars

\* C8 witness: two var_getattr("shape") answered through size(), each
\* recording a node, on a variable with a source
C8_Witness ==
    /\ calls = 2 /\ ShapeAsked /\ prev.op = "var_getattr" /\ prev.name = "shape"
    /\ self.size = None /\ self.source # None
    /\ Len(graph) = 3
    /\ last.res.cls = "SizeVariable" /\ Contents(last.res) = Contents(prev.res)
    /\ Guard("TYPE_MATCH", self.source) \in guards

\* C9: whenever var_getattr on a variable with a source returns a result
\* (the __class__ short-circuit and the in-place view marker aside), a
\* TYPE_MATCH guard on self is installed and the result's source is
\* AttrSource(self.source, name).
C9_TypeGuardOnEverySuccess ==
    (/\ last.op = "var_getattr" /\ last.sig = "return" /\ self.source # None
     /\ last.name # "__class__" /\ last.res.cls # "DelayGraphBreakVariable")
        => /\ Guard("TYPE_MATCH", self.source) \in guards
           /\ last.res.source = AttrSource(self.source, last.name)

\* the trace state the latest call started from
Before ==
    [Machine(SubSeq(graph, 1, last.base), last.gbase)
        EXCEPT !.side_effects = SubSeq(side_effects, 1, last.hbase)]

\* the latest call_method returned and its name has no handler, or its
\* handler returned no result
NotHandled ==
    /\ last.op = "call_method" /\ last.sig = "return"
    /\ \/ last.name \notin HandlerNames
       \/ Handler(self, last.name, last.args, last.kwargs, Before) = Declined(Before)
       \/ Handler(self, last.name, last.args, last.kwargs, Before)
              = Declined(ReadExample(Before))

\* C11 (as claimed): a call without a handler, or declined by it, records
\* exactly one call_method node over self and the arguments and returns a
\* variable of the class of self, whichever tensor class self has (here for
\* the calls whose node has a tensor as example value).
C11_DefaultKeepsKind ==
    (NotHandled /\ graph[Len(graph)].ev.k = "tensor")
        => (RecordedDefault /\ last.res.cls = self.cls)

\* C11 (amended): such a call records exactly one call_method node over self
\* and the arguments and returns what wrap_fx_proxy makes of the node, which
\* does not depend on the class of self: for a node whose example value is
\* a tensor, a plain TensorVariable of that node specialized from the
\* example value; for a node without a known example value, a plain
\* TensorVariable; never an UnspecializedPythonVariable or FakeItemVariable.
C11_DefaultWrapsAsTensor ==
    NotHandled =>
        /\ RecordedDefault
        /\ last.res.cls \notin {"UnspecializedPythonVariable", "FakeItemVariable"}
        /\ graph[Len(graph)].ev.k \in {"tensor", "opaque"} =>
              /\ last.res.cls = "TensorVariable"
              /\ last.res.node = Len(graph) /\ last.res.source = None
        /\ graph[Len(graph)].ev.k = "tensor" =>
              /\ last.res.ndim = PyInt(Len(graph[Len(graph)].ev.size))
              /\ last.res.dtype = graph[Len(graph)].ev.dtype

\* C11 witness: detach() on a FakeItemVariable came back as a TensorVariable
C11_Witness ==
    /\ NotHandled /\ last.name = "detach" /\ self.cls = "FakeItemVariable"
    /\ graph[Len(graph)].ev.k = "tensor"
    /\ last.res.cls = "TensorVariable" /\ last.res.node = Len(graph)

\* the latest call was var_getattr or call_method of a name in the banned list
BannedCalled == last.op \in {"var_getattr", "call_method"} /\ last.name \in env.banned_ops

\* C12: with strict checks enabled, var_getattr and call_method of a banned
\* name fail with Unsupported and leave no constant, guard or node, also for
\* a static metadata field, for __class__ and for a name with a handler;
\* with strict checks disabled the same calls go on as for any other name:
\* none fails with Unsupported but the call of resize_, which its handler
\* rejects, and the cached fields and __class__ are answered.
C12_StrictBansFirst ==
    BannedCalled =>
        IF env.strict_checks_enabled
        THEN /\ last.sig = "Unsupported" /\ last.res = None
             /\ NoNode /\ guards = last.gbase
        ELSE /\ last.sig = "Unsupported" <=> (last.op = "call_method" /\ last.name = "resize_")
             /\ (last.op = "var_getattr" /\ last.name = "layout")
                   => (last.sig = "return" /\ last.res.value = self.layout)
             /\ (last.op = "var_getattr" /\ last.name = "__class__")
                   => last.res = UserDefinedClassVariable(self.class_type)
             /\ (last.op = "call_method" /\ last.name = "size")
                   => (last.sig = "return" /\ last.res.cls = "SizeVariable")

\* C12 witness: with strict checks enabled and __class__ banned,
\* var_getattr("__class__") on a variable with a source failed
C12_Witness ==
    /\ BannedCalled /\ env.strict_checks_enabled
    /\ last.op = "var_getattr" /\ last.name = "__class__" /\ self.source # None
    /\ last.sig = "Unsupported" /\ guards = {}

\* the latest call was var_getattr of a name that is no static metadata
\* field, not data, not __class__, no in-place view operation and no getset
\* descriptor
FallbackAsked ==
    /\ last.op = "var_getattr"
    /\ last.name \notin GetSetDescriptors \cup InplaceViewOps \cup {"__class__"}

\* self has no source, or the bound value defines __getattribute__ or a
\* custom __getattr__
NoFallback == self.source = None \/ env.bound \in {"has_getattribute", "custom_getattr"}

\* C13 (as claimed): for such a name, var_getattr fails with Unsupported,
\* the signal of banned operations and handler rejections, whenever self
\* has no source or the bound value intercepts attribute access.
C13_FallbackUnsupported ==
    (FallbackAsked /\ NoFallback) => last.sig = "Unsupported"

\* C13 (amended): for such a name, var_getattr fails with
\* NotImplementedError, which is not the Unsupported of exc.unimplemented,
\* whenever self has no source or the bound value intercepts attribute
\* access; it records no node and installs no guard.
C13_FallbackNotImplemented ==
    (FallbackAsked /\ NoFallback) =>
        /\ last.sig = "NotImplementedError" /\ last.res = None
        /\ NoNode /\ guards = last.gbase

\* C13 witness: my_attr asked of a variable with a source whose bound value
\* defines __getattribute__
C13_Witness ==
    /\ FallbackAsked /\ last.name = "my_attr"
    /\ self.source # None /\ env.bound = "has_getattribute"
    /\ last.sig = "NotImplementedError"

\* C14 (as claimed, step 2): a create without a supplied value consults the
\* oracle and goes on, whether or not the node has a recorded example value:
\* it never fails the consistency assertion.
C14_OracleWhenNoneSupplied ==
    (last.op = "create" /\ last.args[1] = None) => last.sig # "AssertionError"

\* C14 (amended): on a node with a recorded example value, create fails with
\* AssertionError, returning nothing and leaving the recorded value, unless
\* the supplied value equals the recorded one, so also when none is
\* supplied; on a node without a recorded example value create passes the
\* check and records the supplied value, or the oracle's when none is
\* supplied; after a successful create the node's recorded example value is
\* the resolved value.
C14_CheckThenOracle ==
    [][last'.op = "create" =>
          LET recorded == graph[2].ev
              supplied == last'.args[1]
              resolved == IF supplied = None THEN env.oracle ELSE supplied
              matches == supplied # None /\ supplied.v = recorded.v
          IN  /\ (recorded # None /\ ~matches) =>
                    /\ last'.sig = "AssertionError" /\ last'.res = None
                    /\ graph' = graph
              /\ (recorded = None \/ matches) =>
                    /\ last'.sig \in {"return", "BdbQuit"}
                    /\ graph'[2].ev = resolved
              /\ (recorded = None /\ supplied = None) => graph'[2].ev = env.oracle
              /\ last'.sig = "return" => graph'[2].ev = resolved]_vars

\* C14 witness: a create without a supplied value on a node with a recorded
\* example value failed the assertion
C14_Witness ==
    /\ last.op = "create" /\ last.args[1] = None
    /\ graph[2].ev # None /\ calls = 1
    /\ last.sig = "AssertionError"

\* the latest call was register_hook(hook) or
\* register_post_accumulate_grad_hook(hook)
HookCalled ==
    /\ last.op = "call_method"
    /\ last.name \in {"register_hook", "register_post_accumulate_grad_hook"}
    /\ Len(last.args) + Len(last.kwargs) = 1

HookArg == IF last.args # <<>> THEN last.args[1] ELSE last.kwargs[1].val

\* the latest call registered no side effect
NoSideEffect == Len(side_effects) = last.hbase

\* C15: register_hook / register_post_accumulate_grad_hook on a variable
\* without a source fails with Unsupported, recording no node and no side
\* effect, when compiled autograd is off, and records exactly one
\* call_function node over self and no side effect when it is on; on a
\* variable with a source it records no node, registers exactly one hook
\* side effect (self, hook, handle, name) and returns the handle, whatever
\* the compiled autograd mode.
C15_RegisterHook ==
    HookCalled =>
        IF self.source = None
        THEN IF ~env.compiled_autograd_enabled
             THEN last.sig = "Unsupported" /\ NoNode /\ NoSideEffect
             ELSE /\ last.sig = "return" /\ NoSideEffect
                  /\ Len(graph) = last.base + 1
                  /\ graph[Len(graph)].op = "call_function"
                  /\ graph[Len(graph)].args = <<NodeRef(self.node)>>
                  /\ last.res.node = Len(graph)
        ELSE /\ last.sig = "return" /\ NoNode
             /\ Len(side_effects) = last.hbase + 1
             /\ last.res.cls = "RemovableHandleVariable"
             /\ side_effects[Len(side_effects)] =
                   [tensor |-> self, hook |-> HookArg, handle |-> last.res,
                    name |-> last.name]

\* C15 witness: register_post_accumulate_grad_hook on a variable with a
\* source, compiled autograd off, registered the side effect
C15_Witness ==
    /\ HookCalled /\ last.name = "register_post_accumulate_grad_hook"
    /\ self.source # None /\ ~env.compiled_autograd_enabled
    /\ Len(side_effects) = last.hbase + 1 /\ NoNode
    /\ side_effects[Len(side_effects)].handle = last.res

\* the latest call was var_getattr of the name of an in-place view operation
InplaceViewAsked == last.op = "var_getattr" /\ last.name \in InplaceViewOps

\* C16: var_getattr of the name of an in-place view operation on a variable
\* with a source returns the DelayGraphBreakVariable of
\* AttrSource(self.source, name), does not fail, records no node and
\* installs no guard; on a variable without a source it returns no such
\* marker (it fails with NotImplementedError).
C16_InplaceViewDelayed ==
    InplaceViewAsked =>
        IF self.source # None
        THEN /\ last.sig = "return"
             /\ last.res = DelayGraphBreakVariable(AttrSource(self.source, last.name))
             /\ NoNode /\ guards = last.gbase
        ELSE last.sig = "NotImplementedError" /\ last.res = None /\ NoNode

\* C16 witness: resize_ asked of a variable with a source came back delayed
C16_Witness ==
    /\ InplaceViewAsked /\ last.name = "resize_" /\ self.source = LocalSource("x")
    /\ last.res.cls = "DelayGraphBreakVariable" /\ guards = {}

\* the latest call was __contains__(arg)
ContainsCalled ==
    last.op = "call_method" /\ last.name = "__contains__" /\ Len(last.args) = 1

\* the node recorded as the i-th of the latest call
Recorded(i) == graph[last.base + i]

\* C17: __contains__(arg) records torch.eq over self and arg, then torch.any
\* over that, then calls item on the reduction: with capture_scalar_outputs
\* off it fails there with Unsupported, as a direct item() does, and with
\* it on the item handler declines and the item call is recorded by default
\* dispatch over the reduction, as a direct item() is over self.
C17_ContainsThroughItem ==
    /\ ContainsCalled =>
          /\ Len(graph) >= last.base + 2
          /\ Recorded(1).op = "call_function" /\ Recorded(1).target = "torch.eq"
          /\ Recorded(1).args = proxy_args(<<self, last.args[1]>>)
          /\ Recorded(2).op = "call_function" /\ Recorded(2).target = "torch.any"
          /\ Recorded(2).args = <<NodeRef(last.base + 1)>>
          /\ IF ~env.capture_scalar_outputs
             THEN last.sig = "Unsupported" /\ Len(graph) = last.base + 2
             ELSE /\ last.sig = "return" /\ Len(graph) = last.base + 3
                  /\ Recorded(3).op = "call_method" /\ Recorded(3).target = "item"
                  /\ Recorded(3).args = <<NodeRef(last.base + 2)>>
                  /\ Recorded(3).kwargs = <<>>
                  /\ last.res.node = last.base + 3
    /\ (last.op = "call_method" /\ last.name = "item") =>
          IF ~env.capture_scalar_outputs
          THEN last.sig = "Unsupported" /\ NoNode
          ELSE last.sig = "return" /\ RecordedDefault

\* C17 witness: with capture_scalar_outputs on, __contains__(0) ended in a
\* recorded item call
C17_Witness ==
    /\ ContainsCalled /\ last.args[1] = Zero /\ env.capture_scalar_outputs
    /\ last.sig = "return" /\ graph[Len(graph)].target = "item"
    /\ graph[Len(graph) - 1].target = "torch.any"

\* the latest call was add_(other) or add_(other, alpha=a)
AddCalled ==
    /\ last.op = "call_method" /\ last.name = "add_" /\ Len(last.args) = 1
    /\ KwKeys(last.kwargs) \subseteq {"alpha"}

\* the latest call was addcdiv_(t1, t2) or addcdiv_(t1, t2, value=v)
AddcdivCalled ==
    /\ last.op = "call_method" /\ last.name = "addcdiv_" /\ Len(last.args) = 2
    /\ KwKeys(last.kwargs) \subseteq {"value"}

\* the i-th node of the latest call is the call_function fn over args
RecordedFunction(i, fn, args) ==
    /\ Recorded(i).op = "call_function" /\ Recorded(i).target = fn
    /\ Recorded(i).args = args /\ Recorded(i).kwargs = <<>>

\* the i-th node of the latest call is self.add_(node i - 1), without alpha
RecordedPlainAdd(i) ==
    /\ Recorded(i).op = "call_method" /\ Recorded(i).target = "add_"
    /\ Recorded(i).args = <<NodeRef(self.node), NodeRef(last.base + i - 1)>>
    /\ Recorded(i).kwargs = <<>>

\* C18: add_(other, alpha=a) records torch.mul(other, a) and then one plain
\* add_ of the product to self; addcdiv_(t1, t2, value=v) records
\* torch.div(t1, t2), torch.mul of the quotient by v and then one plain add_
\* of the product to self; no other node is recorded, so none carries a
\* scaling argument; without the scaling argument the handler declines and
\* the call is recorded unchanged by default dispatch.
C18_ScaledAddRewritten ==
    /\ AddCalled =>
          /\ last.sig = "return"
          /\ IF last.kwargs = <<>> THEN RecordedDefault
             ELSE /\ Len(graph) = last.base + 2
                  /\ RecordedFunction(1, "torch.mul",
                                       proxy_args(<<last.args[1], last.kwargs[1].val>>))
                  /\ RecordedPlainAdd(2)
                  /\ last.res.node = last.base + 2
    /\ AddcdivCalled =>
          /\ last.sig = "return"
          /\ IF last.kwargs = <<>> THEN RecordedDefault
             ELSE /\ Len(graph) = last.base + 3
                  /\ RecordedFunction(1, "torch.div", proxy_args(last.args))
                  /\ RecordedFunction(2, "torch.mul",
                                       <<NodeRef(last.base + 1),
                                         as_proxy(last.kwargs[1].val)>>)
                  /\ RecordedPlainAdd(3)
                  /\ last.res.node = last.base + 3

\* C18 witness: addcdiv_(t1, t2, value=2) ended in a plain add_ after a
\* division and a multiplication
C18_Witness ==
    /\ AddcdivCalled /\ last.kwargs = <<Kw("value", Two)>>
    /\ Len(graph) = last.base + 3
    /\ Recorded(1).target = "torch.div" /\ Recorded(2).target = "torch.mul"
    /\ Recorded(3).target = "add_" /\ Recorded(3).kwargs = <<>>

\* the latest call was numpy() or numpy(force=...)
NumpyCalled ==
    /\ last.op = "call_method" /\ last.name = "numpy" /\ last.args = <<>>
    /\ KwKeys(last.kwargs) \subseteq {"force"}

Forced == last.kwargs # <<>> /\ last.kwargs[1].val = ConstantVariable(PyBool(TRUE))

\* the i-th node of the latest call is the method target called on args
RecordedMethod(i, target, args) ==
    /\ Recorded(i).op = "call_method" /\ Recorded(i).target = target
    /\ Recorded(i).args = args /\ Recorded(i).kwargs = <<>>

\* the latest numpy call recorded detach and cpu (forced) or one view_as of
\* self as self, and returned the NumpyNdarrayVariable of the last node
NumpyRecorded ==
    /\ last.sig = "return" /\ last.res.cls = "NumpyNdarrayVariable"
    /\ last.res.node = Len(graph)
    /\ IF Forced
       THEN /\ Len(graph) = last.base + 2
            /\ RecordedMethod(1, "detach", <<NodeRef(self.node)>>)
            /\ RecordedMethod(2, "cpu", <<NodeRef(last.base + 1)>>)
       ELSE /\ Len(graph) = last.base + 1
            /\ RecordedMethod(1, "view_as", <<NodeRef(self.node), NodeRef(self.node)>>)

\* C19 (as claimed): numpy fails with Unsupported, recording no node, when
\* trace_numpy is off or numpy is not available, and in every other case it
\* records detach and cpu (force=True) or a single view_as(self, self) and
\* returns a NumpyNdarrayVariable.
C19_NumpyGatedBySwitches ==
    NumpyCalled =>
        IF ~env.trace_numpy \/ ~env.np_available
        THEN last.sig = "Unsupported" /\ NoNode
        ELSE NumpyRecorded

\* C19 (amended): numpy fails with Unsupported, recording no node, when
\* trace_numpy is off, numpy is not available, or the layout of self is not
\* strided; in every other case it records detach and cpu (force=True) or a
\* single view_as(self, self) and returns a NumpyNdarrayVariable.
C19_NumpyGatedByLayoutToo ==
    NumpyCalled =>
        IF ~env.trace_numpy \/ ~env.np_available \/ self.layout # PyStr("strided")
        THEN last.sig = "Unsupported" /\ NoNode
        ELSE NumpyRecorded

\* C19 witness: numpy(force=True) of a strided tensor recorded detach and cpu
C19_Witness ==
    /\ NumpyCalled /\ Forced /\ self.layout = PyStr("strided")
    /\ last.sig = "return" /\ last.res.cls = "NumpyNdarrayVariable"
    /\ graph[Len(graph)].target = "cpu" /\ graph[Len(graph) - 1].target = "detach"

\* the latest call was a method call on an array variable
ArrayCalled == last.op = "call_method" /\ self.cls = "NumpyNdarrayVariable"

\* the nodes the latest call recorded
NewNodes == {graph[i] : i \in (last.base + 1)..Len(graph)}

\* the latest call recorded the call_function node of numpy_method_wrapper
\* of its name over self, the arguments and the keyword arguments kw, and
\* returned the array variable of that node
RecordedWrapper(kw) ==
    /\ last.sig = "return" /\ Len(graph) = last.base + 1
    /\ graph[Len(graph)].op = "call_function"
    /\ graph[Len(graph)].target = "numpy_method_wrapper." \o last.name
    /\ graph[Len(graph)].args = proxy_args(<<self>> \o last.args)
    /\ graph[Len(graph)].kwargs = kw
    /\ last.res.cls = "NumpyNdarrayVariable" /\ last.res.node = Len(graph)

\* the keyword arguments of the latest call with a_min, a_max named min, max
ClipKwargs ==
    IF KwKeys(last.kwargs) = {"a_min", "a_max"}
    THEN <<[key |-> "min", val |-> as_proxy(last.kwargs[1].val)],
           [key |-> "max", val |-> as_proxy(last.kwargs[2].val)]>>
    ELSE IF KwKeys(last.kwargs) = {"a_max"}
    THEN <<[key |-> "max", val |-> as_proxy(last.kwargs[1].val)]>>
    ELSE <<[key |-> "min", val |-> as_proxy(last.kwargs[3].val)],
           [key |-> "max", val |-> as_proxy(last.kwargs[2].val)]>>

\* C20: on an array variable, __len__, size and tolist are answered by the
\* tensor protocol (no numpy_method_wrapper node, no array variable: size
\* and __len__ from the cached sizes when there are any, tolist as a list of
\* one item call per element of an integer tensor and Unsupported for any
\* other dtype); tobytes fails with Unsupported and records no node; every
\* other name records one call_function node of numpy_method_wrapper(name)
\* over self and the arguments, the keyword arguments unchanged but for
\* clip, whose a_min/a_max go as min/max, and returns an array variable.
C20_ArrayCallMethod ==
    ArrayCalled =>
        CASE last.name \in {"__len__", "size", "tolist"} ->
                /\ \A n \in NewNodes : n.op # "call_function" \/ n.target = "getitem"
                /\ last.res # None => last.res.cls # "NumpyNdarrayVariable"
                /\ (last.name = "size" /\ last.args = <<>> /\ self.size # None) =>
                      /\ NoNode /\ last.res.cls = "SizeVariable"
                      /\ Len(last.res.items) = Len(origin.size)
                /\ (last.name = "__len__" /\ self.size # None /\ origin.size # <<>>) =>
                      NoNode /\ last.res = ConstantVariable(PyInt(origin.size[1].v))
                /\ last.name = "tolist" =>
                      IF origin.dtype.name # "int64" THEN last.sig = "Unsupported" /\ NoNode
                      ELSE /\ last.sig = "return"
                           /\ Cardinality({i \in (last.base + 1)..Len(graph) :
                                              graph[i].target = "item"})
                                 = ProdFrom(origin.size, 1)
                           /\ origin.size # <<>> =>
                                 /\ last.res.cls = "ListVariable"
                                 /\ Len(last.res.items) = origin.size[1].v
          [] last.name = "tobytes" -> last.sig = "Unsupported" /\ NoNode
          [] last.name = "clip" -> RecordedWrapper(ClipKwargs)
          [] OTHER -> RecordedWrapper(proxy_kwargs(last.kwargs))

\* C20 witness: clip(a_min=0, a_max=2) was recorded with min and max
C20_Witness ==
    /\ ArrayCalled /\ last.name = "clip" /\ last.args = <<>>
    /\ last.kwargs = <<Kw("a_min", Zero), Kw("a_max", Two)>>
    /\ graph[Len(graph)].target = "numpy_method_wrapper.clip"
    /\ graph[Len(graph)].kwargs = <<Kw("min", PyInt(0)), Kw("max", PyInt(2))>>

(***************************************************************************)
(* C21: termination of the re-entrant dispatches                           *)
(***************************************************************************)
\* the last operation was a call_method, a var_getattr or an
\* unpack_var_sequence on self
Invoked == last.op \in {"call_method", "var_getattr", "unpack_var_sequence"}

\* the names dispatched from inside the last operation, in order: for a
\* call_method, those after the dispatch of the call itself
Reentered == IF last.op = "call_method" THEN Tail(last.trail) ELSE last.trail

\* the deepest nesting of dispatches inside the last operation
ReentryDepth == IF last.op = "call_method" THEN last.peak - 1 ELSE last.peak

\* the name the last operation re-enters call_method with, by the pairs
\* shape/size, ndim/dim, data/detach, __len__/size, add_/add_, addcdiv_/add_,
\* new/new_empty, __contains__/item, numpy/detach
ReentryTarget ==
    CASE last.op = "unpack_var_sequence" -> "size"
      [] last.op = "var_getattr" /\ last.name = "shape" -> "size"
      [] last.op = "var_getattr" /\ last.name = "ndim" -> "dim"
      [] last.op = "var_getattr" /\ last.name = "data" -> "detach"
      [] last.op = "call_method" /\ last.name = "__len__" -> "size"
      [] last.op = "call_method" /\ last.name \in {"add_", "addcdiv_"} -> "add_"
      [] last.op = "call_method" /\ last.name = "new" -> "new_empty"
      [] last.op = "call_method" /\ last.name = "__contains__" -> "item"
      [] last.op = "call_method" /\ last.name = "numpy" -> "detach"
      [] OTHER -> ""

\* the last operation was one that re-enters: not banned by the strict
\* checks, and asking for a field self does not cache, the length, a scaled
\* addition, new on a size, a membership test or a forced conversion
ReentryDue ==
    LET banned == env.strict_checks_enabled /\ last.name \in env.banned_ops
        tensor == self.cls # "NumpyNdarrayVariable"
        keys == KwKeys(last.kwargs)
    IN  CASE last.op = "unpack_var_sequence" -> self.size = None
          [] last.op = "var_getattr" ->
                /\ tensor /\ ~banned
                /\ \/ last.name = "shape" /\ self.size = None
                   \/ last.name = "ndim" /\ self.ndim = None
                   \/ last.name = "data"
          [] last.op = "call_method" ->
                /\ ~banned
                /\ \/ last.name = "__len__" /\ last.args = <<>> /\ last.kwargs = <<>>
                   \/ /\ tensor /\ last.name = "add_"
                      /\ Len(last.args) = 1 /\ keys = {"alpha"}
                   \/ /\ tensor /\ last.name = "addcdiv_"
                      /\ Len(last.args) = 2 /\ keys = {"value"}
                   \/ /\ tensor /\ last.name = "new"
                      /\ Len(last.args) = 1 /\ last.args[1].cls = "SizeVariable"
                   \/ tensor /\ last.name = "__contains__" /\ Len(last.args) = 1
                   \/ /\ tensor /\ last.name = "numpy" /\ last.args = <<>>
                      /\ last.kwargs = <<Kw("force", ForceArg)>>
                      /\ env.trace_numpy /\ env.np_available
                      /\ self.layout = PyStr("strided")
          [] OTHER -> FALSE

\* C21 Every call_method, var_getattr and unpack_var_sequence on a tensor or
\* an array variable ends with a result or an exception other than the
\* interpreter's RecursionError; it re-enters call_method at most once, one
\* level deep, exactly when it is one of the re-entering operations, and then
\* with the name paired with it, whose dispatch does not re-enter in turn.
C21_ReentryTerminates ==
    Invoked =>
        /\ last.sig # "RecursionError"
        /\ ReentryDepth <= 1
        /\ Reentered = IF ReentryDue THEN <<ReentryTarget>> ELSE <<>>

\* C21 witness: add_ with a scaling re-entered call_method once, with add_,
\* and returned
C21_Witness ==
    /\ last.op = "call_method" /\ last.name = "add_"
    /\ last.kwargs = <<Kw("alpha", Two)>>
    /\ last.trail = <<"add_", "add_">> /\ last.peak = 2
    /\ last.sig = "return" /\ last.res # None

====
